---- MODULE Spec2Model ----
(***************************************************************************)
(* Market tracker: the dashboard's backend client (fetchWithRetry and the  *)
(* history loaders of MarketCard and MarketDetail) and the scheduled       *)
(* ingestion run that fills the Market, PricePoint and MarketChange        *)
(* tables.                                                                 *)
(*                                                                         *)
(* Prices are probabilities in hundredths (0.40 is 40); a displayed change *)
(* is an exact fraction <<numerator, denominator>>; time is in days.       *)
(***************************************************************************)
EXTENDS Integers, Sequences, FiniteSets, Bags, TLC

\* ------------------------------------------------------------------ bounds
\* Largest configured VITE_API_RETRY_ATTEMPTS explored.
MaxRetryAttempts == 4
\* The Retry-After value (ms) a 429/503 response may carry.
RetryAfterHint == 2500
\* Longest price history the backend returns for one market.
MaxHist == 3

\* --------------------------------------------------------------- constants
\* fetchWithRetry's default parameter `retries = 3`.
retries == 3
\* API_CONFIG.RETRY_DELAY, VITE_API_RETRY_DELAY || '1000'.
RETRY_DELAY == 1000
\* 30 * 24 * 60 * 60 * 1000 ms, here in days.
WindowDays == 30

\* The markets shown as cards.
Tickers == {"A", "B"}

VARIABLES
  RETRY_ATTEMPTS,        \* API_CONFIG.RETRY_ATTEMPTS; 0 stands for 0 or NaN (falsy)
  cardPc,                \* per card: where loadHistory / fetchWithRetry stands
  i,                     \* per card: fetchWithRetry's loop counter
  sent,                  \* per card: number of fetch() requests issued
  delays,                \* per card: the setTimeout delays waited so far, in order
  pending,               \* per card: the delay being waited and the Retry-After of the response before it
  n429,                  \* per card: number of 429 responses received
  gotOther,              \* per card: a non-2xx response other than 429/503 was received
  nAbort,                \* per card: number of fetches rejected with an AbortError
  outcome,               \* per card: how fetchWithRetry ended
  history,               \* per market: the history the backend serves
  currentProbability,    \* per market: market.currentProbability
  now,                   \* new Date() when the history is processed, in days
  priceHistory,          \* per card: MarketCard state priceHistory
  calculatedPriceChange, \* per card: MarketCard state calculatedPriceChange
  detailPc,              \* per market: MarketDetail modal closed / loaded
  detailPriceChange,     \* per market: MarketDetail state calculatedPriceChange
  clock,                 \* ingestion: the current day
  source,                \* ingestion: per ticker, the samples the external API serves
  listing,               \* ingestion: the market pages the external API lists
  srcEpoch,              \* ingestion: number of changes made to the source data
  markets,               \* table Market, a bag of rows
  pricePoints,           \* table PricePoint, a bag of rows
  marketChanges,         \* table MarketChange, a bag of rows
  runPc,                 \* coordinator: "idle", "running", "expired" or "aborted"
  runNow,                \* coordinator: the run timestamp
  toDispatch,            \* coordinator: the task queue, listed markets not yet dispatched
  worker,                \* worker pool: per worker, its market task and step
  failed,                \* run summary: tickers with a failed per-market step
  succeeded,             \* run summary: tickers with a task that reached DONE
  runsDone,              \* number of finished runs
  faults,                \* number of per-market steps that have failed
  skipped,               \* run summary: records rejected as malformed
  lastError,             \* coordinator: kind of the last error caught in the run
  lastRun,               \* the tables and summary at the end of the last run
  command,               \* setup script: its first argument, "" when run without one
  todo,                  \* setup script: the calls of the case branch still to make
  exitStatus,            \* setup script: its exit status, -1 while it has not exited
  started,               \* setup script: the functions called so far, in order
  completed,             \* setup script: the functions all of whose commands succeeded
  dockerUp,              \* machine: the Docker daemon is running
  container,             \* machine: the PostgreSQL container, absent / stopped / running
  venvs,                 \* machine: the jobs whose virtual environment exists
  migrated,              \* machine: alembic upgrade head has been applied
  processed,             \* machine: python job.py has run to its end
  marketList,            \* useMarkets: state markets
  loading,               \* useMarkets: state loading
  loadingMore,           \* useMarkets: state loadingMore
  error,                 \* useMarkets: state error, "null" for null
  hasMore,               \* useMarkets: state hasMore
  currentOffset,         \* useMarkets: state currentOffset
  statsFilters,          \* useMarkets: the filter values the stats counters were loaded for
  filters,               \* useMarkets: state filters, as the number of changes made
  filterTimer,           \* useMarkets: the filter effect's setTimeout is pending
  mounted,               \* useMarkets: the mount effect has run
  abortControllerRef,    \* useMarkets: abortControllerRef.current, 0 for null
  loads,                 \* useMarkets: the calls of loadMarkets, in the order started
  total,                 \* backend: the number of markets it holds
  pagination,            \* paginated useMarkets: state pagination
  pageLoading,           \* paginated useMarkets: state loading
  pageError,             \* paginated useMarkets: state error, "null" for null
  pageLoads,             \* paginated useMarkets: the calls of loadMarkets, in the order started
  pageRef,               \* paginated useMarkets: abortControllerRef.current, 0 for null
  pageMounted,           \* paginated useMarkets: the effects have run
  pageTimer,             \* paginated useMarkets: the pending filter timer's captured pageSize, 0 for none
  backendTotal           \* backend: the number of markets matching the current filters

retryVars == <<RETRY_ATTEMPTS, cardPc, i, sent, delays, pending, n429, gotOther, nAbort, outcome>>
cardVars == <<priceHistory, calculatedPriceChange>>
detailVars == <<detailPc, detailPriceChange>>
dataVars == <<history, currentProbability, now>>
frontVars == <<retryVars, cardVars, detailVars, dataVars>>
sourceVars == <<clock, source, listing, srcEpoch>>
tableVars == <<markets, pricePoints, marketChanges>>
runVars ==
  <<runPc, runNow, toDispatch, worker, failed, succeeded, runsDone, faults, skipped,
    lastError, lastRun>>
ingestVars == <<sourceVars, tableVars, runVars>>
setupVars ==
  <<command, todo, exitStatus, started, completed, dockerUp, container, venvs, migrated,
    processed>>
hookVars ==
  <<marketList, loading, loadingMore, error, hasMore, currentOffset, statsFilters, filters,
    filterTimer, mounted, abortControllerRef, loads, total>>
pageVars ==
  <<pagination, pageLoading, pageError, pageLoads, pageRef, pageMounted, pageTimer,
    backendTotal>>
vars == <<frontVars, ingestVars, setupVars, hookVars, pageVars>>

\* ------------------------------------------------------------ fractions
Zero == <<0, 1>>
FracEq(a, b) == a[1] * b[2] = b[1] * a[2]
FracPos(a) == (a[1] > 0 /\ a[2] > 0) \/ (a[1] < 0 /\ a[2] < 0)

Abs(x) == IF x < 0 THEN -x ELSE x
Max2(x, y) == IF x >= y THEN x ELSE y
SetMin(S) == CHOOSE x \in S : \A y \in S : x <= y
SetMax(S) == CHOOSE x \in S : \A y \in S : x >= y

RECURSIVE Pow2(_)
Pow2(n) == IF n = 0 THEN 1 ELSE 2 * Pow2(n - 1)

\* ------------------------------------------------- fetchWithRetry (client)
\* What one fetch() can settle with: a response, or a rejection.
Response(s, h) == [kind |-> "response", status |-> s, retryAfter |-> h, name |-> ""]
Rejection(n) == [kind |-> "reject", status |-> 0, retryAfter |-> 0, name |-> n]

\* MarketCard calls getMarketHistory(ticker) without an AbortSignal, so its
\* fetch never rejects with an AbortError.
CardFetchOutcomes ==
  {Response(200, 0), Response(500, 0), Rejection("TypeError")}
    \cup {Response(s, h) : s \in {429, 503}, h \in {0, RetryAfterHint}}

ResponseOk_anyResponse(r) == r.kind = "response"

\* response.ok
ResponseOk(r) == r.kind = "response" /\ r.status >= 200 /\ r.status <= 299

\* const maxRetries = API_CONFIG.RETRY_ATTEMPTS || retries
maxRetries == IF RETRY_ATTEMPTS # 0 THEN RETRY_ATTEMPTS ELSE retries

LoopGuard_inclusive(n) == n <= maxRetries

\* for (let i = 0; i < maxRetries; i++)
LoopGuard(n) == n < maxRetries

\* response.status === 429 && i < retries - 1
RateLimitedRetry(r, n) == r.kind = "response" /\ r.status = 429 /\ n < retries - 1

LastAttempt_default(n) == n = retries - 1

\* if (i === maxRetries - 1) throw error
LastAttempt(n) == n = maxRetries - 1

BackoffDelay_flat(n) == RETRY_DELAY

\* API_CONFIG.RETRY_DELAY * (i + 1)
BackoffDelay(n) == RETRY_DELAY * (n + 1)

\* The wait before the next attempt after response r on attempt n.
WaitBefore(r, n) == [delay |-> BackoffDelay(n), retryAfter |-> r.retryAfter]

NoWait == [delay |-> 0, retryAfter |-> 0]
NoOutcome == [kind |-> "none", status |-> 0, error |-> ""]
Returned(r) == [kind |-> "returned", status |-> r.status, error |-> ""]
Thrown(e) == [kind |-> "thrown", status |-> 0, error |-> e]

\* The error the try block raises for a fetch outcome that is neither ok nor
\* a rate-limited retry: fetch's own rejection, or the Error of line 453.
ErrorOf(r) == IF r.kind = "reject" THEN r.name ELSE "API request failed"

ErrorOutcome_returned(r) == Returned(r)

\* throw error: the call ends by raising it to the caller.
ErrorOutcome(r) == Thrown(ErrorOf(r))

\* ------------------------------------------------ price change (frontend)
\* history.filter(point => point.timestamp >= windowStart)
WindowHistory(h, t) == SelectSeq(h, LAMBDA point : point.timestamp >= t - WindowDays)

PricesOf(h) == {h[k].price : k \in 1..Len(h)}

\* Math.max(Math.abs(currentPrice - minPrice), Math.abs(currentPrice - maxPrice))
ExtremeDistance(h, cur) ==
  LET prices == PricesOf(h)
      minPrice == SetMin(prices)
      maxPrice == SetMax(prices)
      changeFromMin == Abs(cur - minPrice)
      changeFromMax == Abs(cur - maxPrice)
  IN  Max2(changeFromMin, changeFromMax)

\* MarketCard: percentageChange = currentPrice > 0 ? absoluteChange / currentPrice : 0
CardPriceChange(h, cur, t, old) ==
  IF Len(h) > 0 /\ Len(WindowHistory(h, t)) > 0
    THEN IF cur > 0 THEN <<ExtremeDistance(WindowHistory(h, t), cur), cur>> ELSE Zero
    ELSE old

\* MarketDetail: newPriceChange = Math.max(changeFromMin, changeFromMax)
DetailPriceChange(h, cur, t, old) ==
  IF Len(h) > 0 /\ Len(WindowHistory(h, t)) > 0
    THEN <<ExtremeDistance(WindowHistory(h, t), cur), 100>>
    ELSE old

\* ------------------------------------------- ingestion: data and gateway
\* Last day of the model's calendar, source changes and runs explored.
MaxClock == 2
MaxPublish == 1
MaxRuns == 2
\* Step failures explored over the runs.
MaxFaults == 1

\* The configured trailing windows, in days, and the worker pool.
Windows == {1, 2}
Workers == {1, 2}

\* The market whose source data changes between the runs explored.
Updated == {"A"}

\* What the source can report for one timestamp.
Quotes == {[price |-> 40, volume |-> 10], [price |-> 55, volume |-> 20]}
Sample(ts, q) == [timestamp |-> ts, price |-> q.price, volume |-> q.volume]

\* The rows of bag B that lie in the set S, with their multiplicities.
BagSelect(B, S) == [r \in (BagToSet(B) \cap S) |-> B[r]]

PointRow(t, s) ==
  [ticker |-> t, timestamp |-> s.timestamp, price |-> s.price, volume |-> s.volume]

HasPoint(points, t, ts) ==
  \E r \in BagToSet(points) : r.ticker = t /\ r.timestamp = ts

appendPricePointIfNew_always(points, t, s) ==
  [store |-> points (+) SetToBag({PointRow(t, s)}), inserted |-> TRUE]

\* appendPricePointIfNew(ticker, timestamp, price, volume) -> inserted:
\* a no-op if the (ticker, timestamp) pair already exists.
appendPricePointIfNew(points, t, s) ==
  IF HasPoint(points, t, s.timestamp)
    THEN [store |-> points, inserted |-> FALSE]
    ELSE [store |-> points (+) SetToBag({PointRow(t, s)}), inserted |-> TRUE]

\* APPEND_NEW_POINTS: every fetched sample goes through
\* appendPricePointIfNew, earliest first; `inserted` collects the timestamps
\* for which it answered inserted = true.
RECURSIVE AppendNewPoints(_, _, _)
AppendNewPoints(points, t, samples) ==
  IF samples = {} THEN [store |-> points, inserted |-> {}]
  ELSE LET s == CHOOSE x \in samples : \A y \in samples : x.timestamp <= y.timestamp
           one == appendPricePointIfNew(points, t, s)
           rest == AppendNewPoints(one.store, t, samples \ {s})
       IN  [store |-> rest.store,
            inserted |-> rest.inserted \cup (IF one.inserted THEN {s.timestamp} ELSE {})]

\* queryHistory(ticker, since): the stored points of the ticker from `since`
\* on; the earliest is the one with the least timestamp.
queryHistory(points, t, since) ==
  {r \in BagToSet(points) : r.ticker = t /\ r.timestamp >= since}

\* The last known timestamp of a ticker, -1 when it has no stored point.
LastKnown(points, t) ==
  LET known == {r.timestamp : r \in queryHistory(points, t, 0)}
  IN  IF known = {} THEN -1 ELSE SetMax(known)

\* fetchMarketHistory(ticker, since) -> priceSamples
fetchMarketHistory(src, t, since) == {s \in src[t] : s.timestamp >= since}

\* Canonical prices are probabilities in [0,1], kept in hundredths.
ValidSample(s) == s.price \in 0..100

Normalize_clamp(samples) ==
  {[s EXCEPT !.price = IF @ > 100 THEN 100 ELSE IF @ < 0 THEN 0 ELSE @] : s \in samples}

\* Normalization at the adapter boundary: a record that fails it (price
\* outside [0,1]) is skipped, never coerced.
Normalize(samples) == {s \in samples : ValidSample(s)}

\* The records of a response that are skipped and counted as malformed.
Malformed(samples) == {s \in samples : ~ValidSample(s)}

\* The price the source lists for a market: that of its latest well-formed
\* sample.
ListedPrice(src, t) ==
  (CHOOSE s \in Normalize(src[t]) :
     \A y \in Normalize(src[t]) : s.timestamp >= y.timestamp).price

upsertMarket_insertOnly(mk, t, price) ==
  IF \E r \in BagToSet(mk) : r.ticker = t THEN mk
  ELSE mk (+) SetToBag({[ticker |-> t, current_price |-> price]})

\* upsertMarket(record): insert-or-update keyed by ticker; the mutable
\* fields are refreshed. Of the record the model keeps the ticker and
\* current_price.
upsertMarket(mk, t, price) ==
  BagSelect(mk, {r \in BagToSet(mk) : r.ticker # t})
    (+) SetToBag({[ticker |-> t, current_price |-> price]})

CurrentPrice(mk, t) == (CHOOSE r \in BagToSet(mk) : r.ticker = t).current_price

upsertMarketChange_append(changes, t, w, stats, at) ==
  changes (+) SetToBag({[ticker |-> t, window_days |-> w, stats |-> stats,
                         calculated_at |-> at]})

upsertMarketChange_insertOnly(changes, t, w, stats, at) ==
  IF \E r \in BagToSet(changes) : r.ticker = t /\ r.window_days = w
    THEN changes
    ELSE changes (+) SetToBag({[ticker |-> t, window_days |-> w, stats |-> stats,
                               calculated_at |-> at]})

\* upsertMarketChange(ticker, window_days, stats): insert-or-overwrite keyed
\* by (ticker, window_days).
upsertMarketChange(changes, t, w, stats, at) ==
  BagSelect(changes, {r \in BagToSet(changes) :
                        ~(r.ticker = t /\ r.window_days = w)})
    (+) SetToBag({[ticker |-> t, window_days |-> w, stats |-> stats,
                   calculated_at |-> at]})

RECURSIVE PersistChanges(_, _, _, _, _)
PersistChanges(changes, t, ws, stats, at) ==
  IF ws = {} THEN changes
  ELSE LET w == CHOOSE x \in ws : TRUE
       IN  PersistChanges(upsertMarketChange(changes, t, w, stats[w], at),
                          t, ws \ {w}, stats, at)

\* ------------------------------------------ ingestion: change computation
Undefined == <<0, 0>>
ZeroStats ==
  [price_change |-> 0, min_price |-> 0, max_price |-> 0, change_percentage |-> Undefined]

\* Steps 2 and 3 of the change computation over the windowed points.
ComputeChange(windowed, currentPrice) ==
  IF Cardinality(windowed) < 2 THEN ZeroStats
  ELSE LET first == CHOOSE r \in windowed : \A y \in windowed : r.timestamp <= y.timestamp
           startPrice == first.price
           prices == {r.price : r \in windowed}
       IN  [price_change |-> currentPrice - startPrice,
            min_price |-> SetMin(prices),
            max_price |-> SetMax(prices),
            change_percentage |->
              IF startPrice > 0 THEN <<currentPrice - startPrice, startPrice>>
                                ELSE Undefined]

\* Step 1: the points with timestamp >= now - W days.
WindowPoints(points, t, w, at) == queryHistory(points, t, at - w)

ComputeChanges(points, mk, t, at) ==
  [w \in Windows |-> ComputeChange(WindowPoints(points, t, w, at), CurrentPrice(mk, t))]

\* ------------------------------------------------- ingestion: coordinator
Idle == [pc |-> "idle", ticker |-> "", fetched |-> {}, inserted |-> {}, stats |-> <<>>]
NoRun == [points |-> EmptyBag, changes |-> EmptyBag, markets |-> EmptyBag,
          at |-> -1, epoch |-> -1, failed |-> {}, succeeded |-> {}, exit |-> -1]

\* FETCH_MARKETS: the listing names every market once, or market A on two
\* pages.
Listings == {<<"A", "B">>, <<"A", "B", "A">>}

Q40 == [price |-> 40, volume |-> 10]
Q55 == [price |-> 55, volume |-> 20]

\* The store is empty and no run has started.
InitStore ==
  /\ markets = EmptyBag
  /\ pricePoints = EmptyBag
  /\ marketChanges = EmptyBag
  /\ runPc = "idle"
  /\ runNow = 0
  /\ toDispatch = <<>>
  /\ worker = [w \in Workers |-> Idle]
  /\ failed = {}
  /\ succeeded = {}
  /\ runsDone = 0
  /\ faults = 0
  /\ skipped = 0
  /\ lastError = "none"
  /\ lastRun = NoRun

InitIngest(l) ==
  /\ clock = 1
  /\ source = [t \in Tickers |->
       IF t = "A" THEN {Sample(0, Q40), Sample(1, Q55)}
                  ELSE {Sample(0, Q55), Sample(1, Q40)}]
  /\ listing = l
  /\ srcEpoch = 0
  /\ InitStore

\* A day passes between runs.
Tick ==
  /\ runPc = "idle"
  /\ clock < MaxClock
  /\ clock' = clock + 1
  /\ UNCHANGED <<source, listing, srcEpoch, tableVars, runVars, frontVars, setupVars, hookVars, pageVars>>

\* Between runs the source reports a sample for today, or revises today's.
SourcePublish(t, q) ==
  /\ runPc = "idle"
  /\ srcEpoch < MaxPublish
  /\ Sample(clock, q) \notin source[t]
  /\ source' = [source EXCEPT ![t] =
        {s \in @ : s.timestamp # clock} \cup {Sample(clock, q)}]
  /\ srcEpoch' = srcEpoch + 1
  /\ UNCHANGED <<clock, listing, tableVars, runVars, frontVars, setupVars, hookVars, pageVars>>

\* INIT -> FETCH_MARKETS: the run takes its timestamp and lists the markets.
StartRun ==
  /\ runPc = "idle"
  /\ runsDone < MaxRuns
  /\ runPc' = "running"
  /\ runNow' = clock
  /\ toDispatch' = listing
  /\ failed' = {}
  /\ succeeded' = {}
  /\ skipped' = 0
  /\ lastError' = "none"
  /\ UNCHANGED <<worker, runsDone, faults, lastRun>>
  /\ UNCHANGED <<sourceVars, tableVars, frontVars, setupVars, hookVars, pageVars>>

\* The first free worker of the pool takes the market at the head of the
\* task queue.
Dispatch(w) ==
  /\ runPc = "running"
  /\ worker[w].pc = "idle"
  /\ \A v \in Workers : v < w => worker[v].pc # "idle"
  /\ toDispatch # <<>>
  /\ toDispatch' = Tail(toDispatch)
  /\ worker' = [worker EXCEPT ![w] = [Idle EXCEPT !.pc = "upsert",
                                                   !.ticker = Head(toDispatch)]]
  /\ UNCHANGED <<runPc, runNow, failed, succeeded, runsDone, faults, skipped, lastRun,
               lastError>>
  /\ UNCHANGED <<sourceVars, tableVars, frontVars, setupVars, hookVars, pageVars>>

UpsertMarket_skipFetch(w) ==
  /\ worker[w].pc = "upsert"
  /\ markets' = upsertMarket(markets, worker[w].ticker,
                             ListedPrice(source, worker[w].ticker))
  /\ worker' = [worker EXCEPT ![w].pc = "append"]
  /\ UNCHANGED <<pricePoints, marketChanges>>
  /\ UNCHANGED <<runPc, runNow, toDispatch, failed, succeeded, runsDone, faults, skipped, lastRun,
               lastError>>
  /\ UNCHANGED <<sourceVars, frontVars, setupVars, hookVars, pageVars>>

\* UPSERT_MARKET
UpsertMarket(w) ==
  /\ worker[w].pc = "upsert"
  /\ markets' = upsertMarket(markets, worker[w].ticker,
                             ListedPrice(source, worker[w].ticker))
  /\ worker' = [worker EXCEPT ![w].pc = "fetch"]
  /\ UNCHANGED <<pricePoints, marketChanges>>
  /\ UNCHANGED <<runPc, runNow, toDispatch, failed, succeeded, runsDone, faults, skipped, lastRun,
               lastError>>
  /\ UNCHANGED <<sourceVars, frontVars, setupVars, hookVars, pageVars>>

\* FETCH_HISTORY, incremental since the last known timestamp of the ticker;
\* the adapter hands on the normalized samples and counts the rest.
FetchHistory(w) ==
  /\ worker[w].pc = "fetch"
  /\ worker' = [worker EXCEPT ![w].pc = "append",
                              ![w].fetched = Normalize(
                                 fetchMarketHistory(source, worker[w].ticker,
                                   LastKnown(pricePoints, worker[w].ticker)))]
  /\ skipped' = skipped + Cardinality(Malformed(
                   fetchMarketHistory(source, worker[w].ticker,
                     LastKnown(pricePoints, worker[w].ticker))))
  /\ UNCHANGED <<runPc, runNow, toDispatch, failed, succeeded, runsDone, faults, lastRun,
               lastError>>
  /\ UNCHANGED <<sourceVars, tableVars, frontVars, setupVars, hookVars, pageVars>>

\* APPEND_NEW_POINTS
AppendPoints(w) ==
  /\ worker[w].pc = "append"
  /\ pricePoints' = AppendNewPoints(pricePoints, worker[w].ticker, worker[w].fetched).store
  /\ worker' = [worker EXCEPT ![w].pc = "compute",
                              ![w].inserted = AppendNewPoints(pricePoints, worker[w].ticker,
                                                              worker[w].fetched).inserted]
  /\ UNCHANGED <<markets, marketChanges>>
  /\ UNCHANGED <<runPc, runNow, toDispatch, failed, succeeded, runsDone, faults, skipped, lastRun,
               lastError>>
  /\ UNCHANGED <<sourceVars, frontVars, setupVars, hookVars, pageVars>>

\* COMPUTE_CHANGES
ComputeStep(w) ==
  /\ worker[w].pc = "compute"
  /\ worker' = [worker EXCEPT ![w].pc = "persist",
                              ![w].stats = ComputeChanges(pricePoints, markets,
                                                          worker[w].ticker, runNow)]
  /\ UNCHANGED <<runPc, runNow, toDispatch, failed, succeeded, runsDone, faults, skipped, lastRun,
               lastError>>
  /\ UNCHANGED <<sourceVars, tableVars, frontVars, setupVars, hookVars, pageVars>>

\* persist changes -> DONE
PersistStep(w) ==
  /\ worker[w].pc = "persist"
  /\ marketChanges' = PersistChanges(marketChanges, worker[w].ticker, Windows,
                                     worker[w].stats, runNow)
  /\ succeeded' = succeeded \cup {worker[w].ticker}
  /\ worker' = [worker EXCEPT ![w] = Idle]
  /\ UNCHANGED <<markets, pricePoints>>
  /\ UNCHANGED <<runPc, runNow, toDispatch, failed, runsDone, faults, skipped, lastRun,
               lastError>>
  /\ UNCHANGED <<sourceVars, frontVars, setupVars, hookVars, pageVars>>

StepFails_abort(w) ==
  /\ worker[w].pc \in {"upsert", "fetch", "append", "compute", "persist"}
  /\ faults < MaxFaults
  /\ faults' = faults + 1
  /\ lastError' = "PerMarketFailure"
  /\ failed' = failed \cup {worker[w].ticker}
  /\ worker' = [v \in Workers |-> Idle]
  /\ toDispatch' = <<>>
  /\ UNCHANGED <<runPc, runNow, succeeded, runsDone, skipped, lastRun>>
  /\ UNCHANGED <<sourceVars, tableVars, frontVars, setupVars, hookVars, pageVars>>

\* The step the worker is about to do fails (a retry-exhausted fetch, a
\* rejected write): caught, logged and counted; none of the step's writes
\* is applied and the worker is free for the next market.
StepFails(w) ==
  /\ worker[w].pc \in {"upsert", "fetch", "append", "compute", "persist"}
  /\ faults < MaxFaults
  /\ faults' = faults + 1
  /\ lastError' = "PerMarketFailure"
  /\ failed' = failed \cup {worker[w].ticker}
  /\ worker' = [worker EXCEPT ![w] = Idle]
  /\ UNCHANGED <<runPc, runNow, toDispatch, succeeded, runsDone, skipped, lastRun>>
  /\ UNCHANGED <<sourceVars, tableVars, frontVars, setupVars, hookVars, pageVars>>

ExitStatus_anyFailure(succ, fail) == IF succ = {} \/ fail # {} THEN 1 ELSE 0

\* The exit status of the process: non-zero only when the run's source
\* yielded no successfully processed market.
ExitStatus(succ, fail) == IF succ = {} THEN 1 ELSE 0

\* The structured summary the process emits when it exits, with the tables
\* as the run leaves them.
RunSummary(succ, fail, at) ==
  [points |-> pricePoints, changes |-> marketChanges, markets |-> markets,
   at |-> at, epoch |-> srcEpoch, failed |-> fail, succeeded |-> succ,
   exit |-> ExitStatus(succ, fail)]

\* DONE: every listed market was dispatched and every worker is back.
EndRun ==
  /\ runPc = "running"
  /\ toDispatch = <<>>
  /\ \A w \in Workers : worker[w].pc = "idle"
  /\ runPc' = "idle"
  /\ runsDone' = runsDone + 1
  /\ lastRun' = RunSummary(succeeded, failed, runNow)
  /\ failed' = {}
  /\ succeeded' = {}
  /\ lastError' = "none"
  /\ UNCHANGED <<runNow, toDispatch, worker, faults, skipped>>
  /\ UNCHANGED <<sourceVars, tableVars, frontVars, setupVars, hookVars, pageVars>>

NextIngest ==
  \/ Tick
  \/ \E t \in Updated, q \in Quotes : SourcePublish(t, q)
  \/ StartRun
  \/ \E w \in Workers : Dispatch(w)
  \/ \E w \in Workers : UpsertMarket(w)
  \/ \E w \in Workers : FetchHistory(w)
  \/ \E w \in Workers : AppendPoints(w)
  \/ \E w \in Workers : ComputeStep(w)
  \/ \E w \in Workers : PersistStep(w)
  \/ \E w \in Workers : StepFails(w)
  \/ EndRun

\* --------------------------------------------- setup_market_tracker.sh
\* The commands the script is run with: none, the documented ones and an
\* unknown one.
Commands ==
  {"", "setup", "db", "migrate", "process", "status", "cleanup", "help", "bogus"}

\* The non-zero statuses a failing command returns.
FailStatus == {1, 2}

errexit_off == FALSE

\* set -e
errexit == TRUE

\* ${1:-setup}
Arg(c) == IF c = "" THEN "setup" ELSE c

\* The functions each branch of the case statement calls, in order.
CaseSteps(a) ==
  CASE a = "setup" ->
         <<"check_docker", "setup_postgres", "setup_migrations_env",
           "setup_data_processor_env", "run_migrations", "run_data_processor">>
    [] a = "db" -> <<"check_docker", "setup_postgres">>
    [] a = "migrate" -> <<"check_docker", "setup_migrations_env", "run_migrations">>
    [] a = "process" ->
         <<"check_docker", "setup_data_processor_env", "run_data_processor">>
    [] a = "status" -> <<"show_status">>
    [] a = "cleanup" -> <<"cleanup">>
    [] OTHER -> <<"show_help">>

\* The status the script ends with when its branch ran through: exit 1
\* after the help text of an unknown command, 0 otherwise.
FinalStatus ==
  IF Arg(command) \in {"setup", "db", "migrate", "process", "status", "cleanup", "help"}
    THEN 0 ELSE 1

\* The script has not been started.
InitNoSetup ==
  /\ command = ""
  /\ todo = <<>>
  /\ exitStatus = -1
  /\ started = <<>>
  /\ completed = <<>>
  /\ dockerUp = FALSE
  /\ container = "absent"
  /\ venvs = {}
  /\ migrated = FALSE
  /\ processed = FALSE

\* ------------------------------------------------- frontend: useMarkets
\* Bounds of the hook's model: loadMarkets calls, the backend's total and
\* the page size (12 in the source); the filter settings the user goes
\* through, in order.
MaxLoads == 5
FilterValues == {0, 1}
MaxTotal == 2
pageSize == 2

\* useState initial values, useRef(null); the two effects have not run yet,
\* the filter effect's timer is about to be set.
InitHook(n) ==
  /\ marketList = <<>>
  /\ loading = TRUE
  /\ loadingMore = FALSE
  /\ error = "null"
  /\ hasMore = TRUE
  /\ currentOffset = 0
  /\ statsFilters = -1
  /\ filters = 0
  /\ filterTimer = TRUE
  /\ mounted = FALSE
  /\ abortControllerRef = 0
  /\ loads = <<>>
  /\ total = n

\* The dashboard is not open.
InitNoHook == InitHook(0)

\* ---------------------------------------- frontend: paginated useMarkets
\* Bound of the paginated view's model: loadMarkets calls. The page sizes
\* are the options of the Show select; the backend totals give 0, 1..2 and
\* more than 9 pages.
MaxPageLoads == 4
PageSizes == {6, 12, 24}
BackendTotals == {0, 7, 60}

\* useState initial values of the paginated hook, useRef(null); the effects
\* have not run yet; the backend holds t markets for the current filters.
InitPages(t) ==
  /\ pagination = [currentPage |-> 1, pageSize |-> 6, totalPages |-> 0, totalItems |-> 0]
  /\ pageLoading = TRUE
  /\ pageError = "null"
  /\ pageLoads = <<>>
  /\ pageRef = 0
  /\ pageMounted = FALSE
  /\ pageTimer = 0
  /\ backendTotal = t

\* The paginated view is not open.
InitNoPages == InitPages(0)

\* ------------------------------------------------------- frontend: state
\* new Date() of the model's page view, in days.
NowDay == 40

Point(ts, p) == [timestamp |-> ts, price |-> p]

\* The backend data the retry specification runs against.
FixedHistory == [m \in Tickers |->
  IF m = "A" THEN <<Point(20, 40), Point(39, 55)>>
             ELSE <<Point(25, 55), Point(39, 40)>>]
FixedProbability == [m \in Tickers |-> IF m = "A" THEN 55 ELSE 40]

\* useState initial values: priceHistory = market.priceHistory, which
\* transformBackendMarket sets to []; calculatedPriceChange = 0.
InitCards ==
  /\ priceHistory = [c \in Tickers |-> <<>>]
  /\ calculatedPriceChange = [c \in Tickers |-> Zero]

InitDetail ==
  /\ detailPc = [m \in Tickers |-> "closed"]
  /\ detailPriceChange = [m \in Tickers |-> Zero]

InitCalls ==
  /\ cardPc = [c \in Tickers |-> "init"]
  /\ i = [c \in Tickers |-> 0]
  /\ sent = [c \in Tickers |-> 0]
  /\ delays = [c \in Tickers |-> <<>>]
  /\ pending = [c \in Tickers |-> NoWait]
  /\ n429 = [c \in Tickers |-> 0]
  /\ gotOther = [c \in Tickers |-> FALSE]
  /\ nAbort = [c \in Tickers |-> 0]
  /\ outcome = [c \in Tickers |-> NoOutcome]

InitRetry ==
  /\ RETRY_ATTEMPTS \in 0..MaxRetryAttempts
  /\ InitCalls
  /\ InitCards
  /\ InitDetail
  /\ history = FixedHistory
  /\ currentProbability = FixedProbability
  /\ now = NowDay
  /\ InitNoSetup
  /\ InitNoHook
  /\ InitNoPages
  /\ InitIngest(<<"A", "B">>)

\* --------------------------------------------- frontend: fetchWithRetry
\* Top of the for loop with counter n: another attempt, or the throw after
\* the loop.
EnterLoop(c, n) ==
  /\ i' = [i EXCEPT ![c] = n]
  /\ IF LoopGuard(n)
       THEN /\ cardPc' = [cardPc EXCEPT ![c] = "fetch"]
            /\ outcome' = outcome
       ELSE /\ cardPc' = [cardPc EXCEPT ![c] = "thrown"]
            /\ outcome' = [outcome EXCEPT ![c] = Thrown("Max retries exceeded")]

\* MarketCard's effect runs loadHistory: getMarketHistory(ticker) calls
\* fetchWithRetry(url, {signal: undefined}).
loadHistory(c) ==
  /\ cardPc[c] = "init"
  /\ EnterLoop(c, 0)
  /\ UNCHANGED <<RETRY_ATTEMPTS, sent, delays, pending, n429, gotOther, nAbort>>
  /\ UNCHANGED <<cardVars, detailVars, dataVars, ingestVars, setupVars, hookVars, pageVars>>

Settle_retryAbort(r, n) ==
  IF ResponseOk(r)
    THEN [pc |-> "returned", outcome |-> Returned(r), wait |-> NoWait]
  ELSE IF RateLimitedRetry(r, n)
    THEN [pc |-> "wait", outcome |-> NoOutcome, wait |-> WaitBefore(r, n)]
  ELSE IF LastAttempt(n)
    THEN [pc |-> ErrorOutcome(r).kind, outcome |-> ErrorOutcome(r), wait |-> NoWait]
    ELSE [pc |-> "wait", outcome |-> NoOutcome, wait |-> WaitBefore(r, n)]

\* What one pass of the loop body does with the fetch outcome r on attempt
\* n: return the response, wait and go round again, or throw.
Settle(r, n) ==
  IF ResponseOk(r)
    THEN [pc |-> "returned", outcome |-> Returned(r), wait |-> NoWait]
  ELSE IF RateLimitedRetry(r, n)
    THEN [pc |-> "wait", outcome |-> NoOutcome, wait |-> WaitBefore(r, n)]
  ELSE IF ErrorOf(r) = "AbortError" \/ LastAttempt(n)
    THEN [pc |-> ErrorOutcome(r).kind, outcome |-> ErrorOutcome(r), wait |-> NoWait]
    ELSE [pc |-> "wait", outcome |-> NoOutcome, wait |-> WaitBefore(r, n)]

\* One pass of the loop body: the request is sent and settles with r.
fetchSettles(c, r) ==
  /\ cardPc[c] = "fetch"
  /\ sent' = [sent EXCEPT ![c] = @ + 1]
  /\ n429' = [n429 EXCEPT ![c] = IF r.kind = "response" /\ r.status = 429 THEN @ + 1 ELSE @]
  /\ gotOther' = [gotOther EXCEPT ![c] =
        @ \/ (r.kind = "response" /\ ~ResponseOk(r) /\ r.status \notin {429, 503})]
  /\ nAbort' = [nAbort EXCEPT ![c] = IF ErrorOf(r) = "AbortError" THEN @ + 1 ELSE @]
  /\ cardPc' = [cardPc EXCEPT ![c] = Settle(r, i[c]).pc]
  /\ outcome' = [outcome EXCEPT ![c] = Settle(r, i[c]).outcome]
  /\ pending' = [pending EXCEPT ![c] = Settle(r, i[c]).wait]
  /\ UNCHANGED <<RETRY_ATTEMPTS, i, delays>>
  /\ UNCHANGED <<cardVars, detailVars, dataVars, ingestVars, setupVars, hookVars, pageVars>>

\* The setTimeout promise resolves; the loop goes on with i + 1.
retryDelayElapsed(c) ==
  /\ cardPc[c] = "wait"
  /\ delays' = [delays EXCEPT ![c] = Append(@, pending[c].delay)]
  /\ pending' = [pending EXCEPT ![c] = NoWait]
  /\ EnterLoop(c, i[c] + 1)
  /\ UNCHANGED <<RETRY_ATTEMPTS, sent, n429, gotOther, nAbort>>
  /\ UNCHANGED <<cardVars, detailVars, dataVars, ingestVars, setupVars, hookVars, pageVars>>

\* fetchWithRetry returned: getMarketHistory maps the rows, loadHistory
\* stores them and computes the card's price change.
loadHistoryResolved(c) ==
  /\ cardPc[c] = "returned"
  /\ cardPc' = [cardPc EXCEPT ![c] = "loaded"]
  /\ priceHistory' = [priceHistory EXCEPT ![c] = history[c]]
  /\ calculatedPriceChange' = [calculatedPriceChange EXCEPT ![c] =
        CardPriceChange(history[c], currentProbability[c], now, @)]
  /\ UNCHANGED <<RETRY_ATTEMPTS, i, sent, delays, pending, n429, gotOther, nAbort, outcome>>
  /\ UNCHANGED <<detailVars, dataVars, ingestVars, setupVars, hookVars, pageVars>>

\* fetchWithRetry threw: getMarketHistory logs and rethrows, loadHistory's
\* catch logs; the card keeps its initial state.
loadHistoryCatch(c) ==
  /\ cardPc[c] = "thrown"
  /\ cardPc' = [cardPc EXCEPT ![c] = "failed"]
  /\ UNCHANGED <<RETRY_ATTEMPTS, i, sent, delays, pending, n429, gotOther, nAbort, outcome>>
  /\ UNCHANGED <<cardVars, detailVars, dataVars, ingestVars, setupVars, hookVars, pageVars>>

NextRetry ==
  \/ \E c \in Tickers : loadHistory(c)
  \/ \E c \in Tickers, r \in CardFetchOutcomes : fetchSettles(c, r)
  \/ \E c \in Tickers : retryDelayElapsed(c)
  \/ \E c \in Tickers : loadHistoryResolved(c)
  \/ \E c \in Tickers : loadHistoryCatch(c)

SpecRetry == InitRetry /\ [][NextRetry]_vars

\* getMarkets, getMarketStats and getMarketDetail hand fetchWithRetry the
\* caller's AbortSignal: the fetch of such a call can also reject with an
\* AbortError.
SignalFetchOutcomes == CardFetchOutcomes \cup {Rejection("AbortError")}

\* The calls made with an AbortSignal.
NextSignal ==
  \/ \E c \in Tickers : loadHistory(c)
  \/ \E c \in Tickers, r \in SignalFetchOutcomes : fetchSettles(c, r)
  \/ \E c \in Tickers : retryDelayElapsed(c)
  \/ \E c \in Tickers : loadHistoryResolved(c)
  \/ \E c \in Tickers : loadHistoryCatch(c)

SpecSignal == InitRetry /\ [][NextSignal]_vars

\* Every fetch settles and every timer fires.
FairRetry ==
  /\ SpecRetry
  /\ \A c \in Tickers :
       /\ WF_vars(loadHistory(c))
       /\ WF_vars(\E r \in CardFetchOutcomes : fetchSettles(c, r))
       /\ WF_vars(retryDelayElapsed(c))
       /\ WF_vars(loadHistoryResolved(c))
       /\ WF_vars(loadHistoryCatch(c))

\* ------------------------------------- frontend: price change of a market
\* Timestamps around the window start now - 30 days, and the price levels.
TimeStamps == {NowDay - 31, NowDay - 30, NowDay - 10, NowDay - 1}
Prices == {0, 20, 40, 55}

\* Histories as the backend serves them: ascending, one point per timestamp.
RECURSIVE HistoriesOfLen(_)
HistoriesOfLen(n) ==
  IF n = 0 THEN {<<>>}
  ELSE {Append(h, Point(ts, p)) :
          h \in HistoriesOfLen(n - 1), ts \in TimeStamps, p \in Prices}

Ascending(h) == \A k \in 1..(Len(h) - 1) : h[k].timestamp < h[k + 1].timestamp

Histories == UNION {{h \in HistoriesOfLen(n) : Ascending(h)} : n \in 0..MaxHist}

\* The history request of every card has just returned an ok response.
InitChange ==
  /\ RETRY_ATTEMPTS = retries
  /\ cardPc = [c \in Tickers |-> "returned"]
  /\ i = [c \in Tickers |-> 0]
  /\ sent = [c \in Tickers |-> 1]
  /\ delays = [c \in Tickers |-> <<>>]
  /\ pending = [c \in Tickers |-> NoWait]
  /\ n429 = [c \in Tickers |-> 0]
  /\ gotOther = [c \in Tickers |-> FALSE]
  /\ nAbort = [c \in Tickers |-> 0]
  /\ outcome = [c \in Tickers |-> Returned(Response(200, 0))]
  /\ InitCards
  /\ InitDetail
  /\ \E h \in Histories : history = [FixedHistory EXCEPT !["A"] = h]
  /\ \E p \in Prices : currentProbability = [FixedProbability EXCEPT !["A"] = p]
  /\ now = NowDay
  /\ InitNoSetup
  /\ InitNoHook
  /\ InitNoPages
  /\ InitIngest(<<"A", "B">>)

\* MarketDetail opens for market m with priceHistory.length === 0; its
\* effect loads the history (the request succeeds) and recalculates.
detailLoadHistory(m) ==
  /\ detailPc[m] = "closed"
  /\ detailPc' = [detailPc EXCEPT ![m] = "loaded"]
  /\ detailPriceChange' = [detailPriceChange EXCEPT ![m] =
        DetailPriceChange(history[m], currentProbability[m], now, @)]
  /\ UNCHANGED <<retryVars, cardVars, dataVars, ingestVars, setupVars, hookVars, pageVars>>

NextChange ==
  \/ \E c \in Tickers : loadHistoryResolved(c)
  \/ \E m \in Tickers : detailLoadHistory(m)

SpecChange == InitChange /\ [][NextChange]_vars

\* The ingestion runs; the dashboard is not open.
InitIngestOnly ==
  /\ RETRY_ATTEMPTS = retries
  /\ InitCalls
  /\ InitCards
  /\ InitDetail
  /\ history = FixedHistory
  /\ currentProbability = FixedProbability
  /\ now = NowDay
  /\ InitNoSetup
  /\ InitNoHook
  /\ InitNoPages
  /\ \E l \in Listings : InitIngest(l)

SpecIngest == InitIngestOnly /\ [][NextIngest]_vars

\* ------------------------------------ ingestion of malformed source records
\* Prices a source record can carry outside [0,1].
BadQuotes == {[price |-> 120, volume |-> 5], [price |-> -10, volume |-> 5]}

\* Market A's two samples: one well-formed and one malformed, in either
\* order.
DirtySamples ==
  {{Sample(0, q0), Sample(1, q1)} : q0 \in Quotes, q1 \in BadQuotes}
    \cup {{Sample(0, q0), Sample(1, q1)} : q0 \in BadQuotes, q1 \in Quotes}

InitNormalize ==
  /\ RETRY_ATTEMPTS = retries
  /\ InitCalls
  /\ InitCards
  /\ InitDetail
  /\ history = FixedHistory
  /\ currentProbability = FixedProbability
  /\ now = NowDay
  /\ InitNoSetup
  /\ InitNoHook
  /\ InitNoPages
  /\ clock = 1
  /\ \E d \in DirtySamples :
       source = [t \in Tickers |->
         IF t = "A" THEN d ELSE {Sample(0, Q55), Sample(1, Q40)}]
  /\ listing \in Listings
  /\ srcEpoch = 0
  /\ InitStore

\* The runs against a source that does not change.
NextNormalize ==
  \/ StartRun
  \/ \E w \in Workers : Dispatch(w)
  \/ \E w \in Workers : UpsertMarket(w)
  \/ \E w \in Workers : FetchHistory(w)
  \/ \E w \in Workers : AppendPoints(w)
  \/ \E w \in Workers : ComputeStep(w)
  \/ \E w \in Workers : PersistStep(w)
  \/ \E w \in Workers : StepFails(w)
  \/ EndRun

SpecNormalize == InitNormalize /\ [][NextNormalize]_vars

\* ------------------------------------------- ingestion: the error taxonomy
\* Errors that are fatal for the run, and errors caught per market.
FatalErrors == {"AuthenticationError", "ConfigurationError"}
PerMarketErrors ==
  {"TransientNetworkError", "RateLimitedError", "RetryExhausted",
   "PersistenceConflictError"}

ErrorAborts_any(kind) == TRUE

\* Only authentication or configuration errors propagate to abort the run.
ErrorAborts(kind) == kind \in FatalErrors

\* The step the worker is about to do raises an error of the given kind:
\* a fatal one aborts the run at once, nothing more is dispatched, the
\* units in flight are abandoned with what is durably written left as it
\* is and the process exits; any other is caught, logged and counted for the market.
WorkerError(w, kind) ==
  /\ runPc = "running"
  /\ worker[w].pc \in {"upsert", "fetch", "append", "compute", "persist"}
  /\ lastError' = kind
  /\ IF ErrorAborts(kind)
       THEN /\ runPc' = "aborted"
            /\ toDispatch' = <<>>
            /\ worker' = [v \in Workers |-> Idle]
            /\ lastRun' = RunSummary(succeeded, failed, runNow)
            /\ UNCHANGED <<failed, faults>>
       ELSE /\ faults < MaxFaults
            /\ faults' = faults + 1
            /\ failed' = failed \cup {worker[w].ticker}
            /\ worker' = [worker EXCEPT ![w] = Idle]
            /\ UNCHANGED <<runPc, toDispatch, lastRun>>
  /\ UNCHANGED <<runNow, succeeded, runsDone, skipped>>
  /\ UNCHANGED <<sourceVars, tableVars, frontVars, setupVars, hookVars, pageVars>>

\* INIT / FETCH_MARKETS fails with a fatal error: the run aborts before any
\* market is dispatched.
StartRunFails(kind) ==
  /\ runPc = "idle"
  /\ runsDone < MaxRuns
  /\ kind \in FatalErrors
  /\ runPc' = "aborted"
  /\ runNow' = clock
  /\ lastError' = kind
  /\ failed' = {}
  /\ succeeded' = {}
  /\ skipped' = 0
  /\ lastRun' = RunSummary({}, {}, clock)
  /\ UNCHANGED <<toDispatch, worker, runsDone, faults>>
  /\ UNCHANGED <<sourceVars, tableVars, frontVars, setupVars, hookVars, pageVars>>

NextAbort ==
  \/ StartRun
  \/ \E kind \in FatalErrors : StartRunFails(kind)
  \/ \E w \in Workers : Dispatch(w)
  \/ \E w \in Workers : UpsertMarket(w)
  \/ \E w \in Workers : FetchHistory(w)
  \/ \E w \in Workers : AppendPoints(w)
  \/ \E w \in Workers : ComputeStep(w)
  \/ \E w \in Workers : PersistStep(w)
  \/ \E w \in Workers, kind \in FatalErrors \cup PerMarketErrors : WorkerError(w, kind)
  \/ EndRun

SpecAbort == InitNormalize /\ [][NextAbort]_vars

\* --------------------------------------------- ingestion: the run deadline
\* timeout: 30m. The run's wall-clock deadline expires while it is running:
\* the coordinator dispatches nothing from then on.
DeadlineExpires ==
  /\ runPc = "running"
  /\ runPc' = "expired"
  /\ lastError' = "DeadlineExceeded"
  /\ UNCHANGED <<runNow, toDispatch, worker, failed, succeeded, runsDone, faults, skipped,
               lastRun>>
  /\ UNCHANGED <<sourceVars, tableVars, frontVars, setupVars, hookVars, pageVars>>

Abandon_partial(w) ==
  /\ runPc = "expired"
  /\ worker[w].pc \in {"upsert", "fetch", "append", "compute", "persist"}
  /\ failed' = failed \cup {worker[w].ticker}
  /\ worker' = [worker EXCEPT ![w] = Idle]
  /\ marketChanges' =
       IF worker[w].pc = "persist"
         THEN PersistChanges(marketChanges, worker[w].ticker, {1}, worker[w].stats, runNow)
         ELSE marketChanges
  /\ UNCHANGED <<markets, pricePoints>>
  /\ UNCHANGED <<runPc, runNow, toDispatch, succeeded, runsDone, faults, skipped, lastRun,
               lastError>>
  /\ UNCHANGED <<sourceVars, frontVars, setupVars, hookVars, pageVars>>

\* After expiry a unit in flight is abandoned before its next step: none of
\* that step's writes is applied and the task is counted as not processed.
Abandon(w) ==
  /\ runPc = "expired"
  /\ worker[w].pc \in {"upsert", "fetch", "append", "compute", "persist"}
  /\ failed' = failed \cup {worker[w].ticker}
  /\ worker' = [worker EXCEPT ![w] = Idle]
  /\ UNCHANGED <<runPc, runNow, toDispatch, succeeded, runsDone, faults, skipped, lastRun,
               lastError>>
  /\ UNCHANGED <<sourceVars, tableVars, frontVars, setupVars, hookVars, pageVars>>

\* After expiry, once no unit is in flight, the run is over with the rest
\* of the task queue not dispatched.
DeadlineEnd ==
  /\ runPc = "expired"
  /\ \A w \in Workers : worker[w].pc = "idle"
  /\ runPc' = "idle"
  /\ runsDone' = runsDone + 1
  /\ toDispatch' = <<>>
  /\ lastRun' = RunSummary(succeeded, failed, runNow)
  /\ failed' = {}
  /\ succeeded' = {}
  /\ lastError' = "none"
  /\ UNCHANGED <<runNow, worker, faults, skipped>>
  /\ UNCHANGED <<sourceVars, tableVars, frontVars, setupVars, hookVars, pageVars>>

\* The runs under a deadline, a day apart, against a source that does not
\* change.
NextDeadline ==
  \/ Tick
  \/ StartRun
  \/ \E w \in Workers : Dispatch(w)
  \/ \E w \in Workers : UpsertMarket(w)
  \/ \E w \in Workers : FetchHistory(w)
  \/ \E w \in Workers : AppendPoints(w)
  \/ \E w \in Workers : ComputeStep(w)
  \/ \E w \in Workers : PersistStep(w)
  \/ EndRun
  \/ DeadlineExpires
  \/ \E w \in Workers : Abandon(w)
  \/ DeadlineEnd

SpecDeadline == InitIngestOnly /\ [][NextDeadline]_vars

\* ------------------------------------- setup_market_tracker.sh: the run
\* The script is about to run with some command on a machine in some state.
InitScript ==
  /\ command \in Commands
  /\ todo = <<>>
  /\ exitStatus = -1
  /\ started = <<>>
  /\ completed = <<>>
  /\ dockerUp \in BOOLEAN
  /\ container \in {"absent", "stopped", "running"}
  /\ container = "running" => dockerUp
  /\ venvs \in SUBSET {"migrations", "data-processor"}
  /\ migrated \in BOOLEAN
  /\ processed = FALSE

\* The function returns and the script goes on to the next call of the
\* branch, or ends after the last one; done: every command of the function
\* succeeded.
Proceed(fn, done) ==
  /\ started' = Append(started, fn)
  /\ completed' = IF done THEN Append(completed, fn) ELSE completed
  /\ todo' = Tail(todo)
  /\ exitStatus' = IF Tail(todo) = <<>> THEN FinalStatus ELSE -1

\* The script exits inside the function.
Exit(fn, status) ==
  /\ started' = Append(started, fn)
  /\ completed' = completed
  /\ todo' = <<>>
  /\ exitStatus' = status

\* A command of the function returns a non-zero status: under set -e the
\* shell exits with it.
CommandFails(fn, status) ==
  IF errexit THEN Exit(fn, status) ELSE Proceed(fn, FALSE)

\* case "${1:-setup}" in ...
Main ==
  /\ exitStatus = -1
  /\ todo = <<>>
  /\ started = <<>>
  /\ todo' = CaseSteps(Arg(command))
  /\ UNCHANGED <<command, exitStatus, started, completed, dockerUp, container, venvs,
               migrated, processed>>
  /\ UNCHANGED <<frontVars, ingestVars, hookVars, pageVars>>

check_docker ==
  /\ exitStatus = -1
  /\ todo # <<>>
  /\ Head(todo) = "check_docker"
  /\ IF dockerUp THEN Proceed("check_docker", TRUE) ELSE Exit("check_docker", 1)
  /\ UNCHANGED <<command, dockerUp, container, venvs, migrated, processed>>
  /\ UNCHANGED <<frontVars, ingestVars, hookVars, pageVars>>

\* docker start / docker run of the container, then the wait for pg_isready.
setup_postgres(fail, status) ==
  /\ exitStatus = -1
  /\ todo # <<>>
  /\ Head(todo) = "setup_postgres"
  /\ fail \in {"none", "docker"}
  /\ ~dockerUp => fail = "docker"
  /\ IF fail = "none"
       THEN /\ container' = "running"
            /\ started' = Append(started, "setup_postgres")
            /\ todo' = <<"pg_isready">> \o Tail(todo)
            /\ UNCHANGED <<completed, exitStatus>>
       ELSE /\ CommandFails("setup_postgres", status)
            /\ UNCHANGED container
  /\ UNCHANGED <<command, dockerUp, venvs, migrated, processed>>
  /\ UNCHANGED <<frontVars, ingestVars, hookVars, pageVars>>

\* until docker exec ... pg_isready; do sleep 2; done: the loop ends when
\* the database answers, and setup_postgres returns.
pg_isready ==
  /\ exitStatus = -1
  /\ todo # <<>>
  /\ Head(todo) = "pg_isready"
  /\ container = "running"
  /\ completed' = Append(completed, "setup_postgres")
  /\ todo' = Tail(todo)
  /\ exitStatus' = IF Tail(todo) = <<>> THEN FinalStatus ELSE -1
  /\ UNCHANGED <<command, started, dockerUp, container, venvs, migrated, processed>>
  /\ UNCHANGED <<frontVars, ingestVars, hookVars, pageVars>>

\* The virtual environment of a job: created if its directory is missing,
\* activated, its requirements installed.
setup_env(fn, dir, fail, status) ==
  /\ exitStatus = -1
  /\ todo # <<>>
  /\ Head(todo) = fn
  /\ fail \in {"none", "venv", "activate", "pip"}
  /\ fail = "venv" => dir \notin venvs
  /\ venvs' = IF fail = "venv" THEN venvs ELSE venvs \cup {dir}
  /\ IF fail = "none" THEN Proceed(fn, TRUE) ELSE CommandFails(fn, status)
  /\ UNCHANGED <<command, dockerUp, container, migrated, processed>>
  /\ UNCHANGED <<frontVars, ingestVars, hookVars, pageVars>>

setup_migrations_env(fail, status) ==
  setup_env("setup_migrations_env", "migrations", fail, status)

setup_data_processor_env(fail, status) ==
  setup_env("setup_data_processor_env", "data-processor", fail, status)

\* cd jobs/migrations, source venv/bin/activate, alembic upgrade head.
run_migrations(fail, status) ==
  /\ exitStatus = -1
  /\ todo # <<>>
  /\ Head(todo) = "run_migrations"
  /\ fail \in {"none", "cd", "activate", "alembic"}
  /\ "migrations" \notin venvs => fail \in {"cd", "activate"}
  /\ container # "running" => fail # "none"
  /\ migrated' = (migrated \/ fail = "none")
  /\ IF fail = "none" THEN Proceed("run_migrations", TRUE)
                      ELSE CommandFails("run_migrations", status)
  /\ UNCHANGED <<command, dockerUp, container, venvs, processed>>
  /\ UNCHANGED <<frontVars, ingestVars, hookVars, pageVars>>

\* cd jobs/data-processor, source venv/bin/activate, python job.py.
run_data_processor(fail, status) ==
  /\ exitStatus = -1
  /\ todo # <<>>
  /\ Head(todo) = "run_data_processor"
  /\ fail \in {"none", "cd", "activate", "job"}
  /\ "data-processor" \notin venvs => fail \in {"cd", "activate"}
  /\ processed' = (fail = "none")
  /\ IF fail = "none" THEN Proceed("run_data_processor", TRUE)
                      ELSE CommandFails("run_data_processor", status)
  /\ UNCHANGED <<command, dockerUp, container, venvs, migrated>>
  /\ UNCHANGED <<frontVars, ingestVars, hookVars, pageVars>>

\* docker stop and docker rm of the container, if docker ps -a lists it.
cleanup(fail, status) ==
  /\ exitStatus = -1
  /\ todo # <<>>
  /\ Head(todo) = "cleanup"
  /\ fail \in {"none", "stop", "rm"}
  /\ (container = "absent" \/ ~dockerUp) => fail = "none"
  /\ container' =
       IF container = "absent" \/ ~dockerUp THEN container
       ELSE IF fail = "stop" THEN container
       ELSE IF fail = "rm" THEN "stopped"
       ELSE "absent"
  /\ IF fail = "none" THEN Proceed("cleanup", TRUE) ELSE CommandFails("cleanup", status)
  /\ UNCHANGED <<command, dockerUp, venvs, migrated, processed>>
  /\ UNCHANGED <<frontVars, ingestVars, hookVars, pageVars>>

show_status ==
  /\ exitStatus = -1
  /\ todo # <<>>
  /\ Head(todo) = "show_status"
  /\ Proceed("show_status", TRUE)
  /\ UNCHANGED <<command, dockerUp, container, venvs, migrated, processed>>
  /\ UNCHANGED <<frontVars, ingestVars, hookVars, pageVars>>

show_help ==
  /\ exitStatus = -1
  /\ todo # <<>>
  /\ Head(todo) = "show_help"
  /\ Proceed("show_help", TRUE)
  /\ UNCHANGED <<command, dockerUp, container, venvs, migrated, processed>>
  /\ UNCHANGED <<frontVars, ingestVars, hookVars, pageVars>>

NextSetup ==
  \/ Main
  \/ check_docker
  \/ \E fail \in {"none", "docker"}, status \in FailStatus : setup_postgres(fail, status)
  \/ pg_isready
  \/ \E fail \in {"none", "venv", "activate", "pip"}, status \in FailStatus :
       setup_migrations_env(fail, status)
  \/ \E fail \in {"none", "venv", "activate", "pip"}, status \in FailStatus :
       setup_data_processor_env(fail, status)
  \/ \E fail \in {"none", "cd", "activate", "alembic"}, status \in FailStatus :
       run_migrations(fail, status)
  \/ \E fail \in {"none", "cd", "activate", "job"}, status \in FailStatus :
       run_data_processor(fail, status)
  \/ \E fail \in {"none", "stop", "rm"}, status \in FailStatus : cleanup(fail, status)
  \/ show_status
  \/ show_help

\* The script runs; the dashboard and the ingestion are not looked at.
InitSetup ==
  /\ RETRY_ATTEMPTS = retries
  /\ InitCalls
  /\ InitCards
  /\ InitDetail
  /\ history = FixedHistory
  /\ currentProbability = FixedProbability
  /\ now = NowDay
  /\ InitIngest(<<"A", "B">>)
  /\ InitScript
  /\ InitNoHook
  /\ InitNoPages

SpecSetup == InitSetup /\ [][NextSetup]_vars

\* ------------------------------------------- frontend: useMarkets, steps
\* A call of loadMarkets: its reset flag, the offset and filter values of
\* its closure, its controller's aborted flag, the request it awaits and
\* how it ended.
NewLoad(reset) ==
  [reset |-> reset,
   offset |-> IF reset THEN 0 ELSE currentOffset,
   filters |-> filters,
   aborted |-> FALSE,
   phase |-> "markets",
   result |-> "pending"]

InFlight(l) == loads[l].phase # "done"

\* The page the backend serves a request: the items of the filter value
\* from the offset on.
Page(f, offset, n) == [k \in 1..n |-> <<f, offset + k - 1>>]

\* The backend returns between 1 and pageSize markets for every offset
\* below its total, none from the total on.
PageLengths(offset) ==
  IF offset < total
    THEN {n \in 1..pageSize : offset + n <= total}
    ELSE {0}

\* loadMarkets up to its first await: the state resets, the previous
\* controller is aborted, the new one is stored and getMarkets is called.
loadMarkets(reset) ==
  /\ Len(loads) < MaxLoads
  /\ loading' = IF reset THEN TRUE ELSE loading
  /\ currentOffset' = IF reset THEN 0 ELSE currentOffset
  /\ marketList' = IF reset THEN <<>> ELSE marketList
  /\ hasMore' = IF reset THEN TRUE ELSE hasMore
  /\ loadingMore' = IF reset THEN loadingMore ELSE TRUE
  /\ error' = "null"
  /\ loads' = Append(IF abortControllerRef # 0
                       THEN [loads EXCEPT ![abortControllerRef].aborted = TRUE]
                       ELSE loads,
                     NewLoad(reset))
  /\ abortControllerRef' = Len(loads) + 1
  /\ UNCHANGED <<statsFilters, filters, total>>

\* useEffect(() => { loadMarkets(true) }, [])
Mount ==
  /\ ~mounted
  /\ mounted' = TRUE
  /\ loadMarkets(TRUE)
  /\ UNCHANGED filterTimer
  /\ UNCHANGED <<frontVars, ingestVars, setupVars, pageVars>>

\* The user changes a filter: the effect's cleanup clears the pending timer
\* and the effect sets a new one.
setFilters ==
  /\ mounted
  /\ filters + 1 \in FilterValues
  /\ filters' = filters + 1
  /\ filterTimer' = TRUE
  /\ UNCHANGED <<marketList, loading, loadingMore, error, hasMore, currentOffset,
               statsFilters, mounted, abortControllerRef, loads, total>>
  /\ UNCHANGED <<frontVars, ingestVars, setupVars, pageVars>>

\* setTimeout(() => { loadMarkets(true) }, 300) fires.
filterTimerFires ==
  /\ mounted
  /\ filterTimer
  /\ filterTimer' = FALSE
  /\ loadMarkets(TRUE)
  /\ UNCHANGED mounted
  /\ UNCHANGED <<frontVars, ingestVars, setupVars, pageVars>>

\* The Retry button of the error banner.
refreshMarkets ==
  /\ mounted
  /\ error # "null"
  /\ loadMarkets(TRUE)
  /\ UNCHANGED <<filterTimer, mounted>>
  /\ UNCHANGED <<frontVars, ingestVars, setupVars, pageVars>>

loadMore_unguarded ==
  /\ mounted
  /\ ~loading
  /\ marketList # <<>>
  /\ ~loadingMore
  /\ loadMarkets(FALSE)
  /\ UNCHANGED <<filterTimer, mounted>>
  /\ UNCHANGED <<frontVars, ingestVars, setupVars, pageVars>>

\* The IntersectionObserver of the last rendered card fires (the list is
\* rendered when loading is false) and loadMore passes its guard.
loadMore ==
  /\ mounted
  /\ ~loading
  /\ marketList # <<>>
  /\ hasMore /\ ~loadingMore
  /\ ~loadingMore /\ hasMore /\ ~loading
  /\ loadMarkets(FALSE)
  /\ UNCHANGED <<filterTimer, mounted>>
  /\ UNCHANGED <<frontVars, ingestVars, setupVars, pageVars>>

catchError_always(name, old) == "Failed to load markets"

\* catch (err): only an error that is not an AbortError sets the message.
catchError(name, old) == IF name # "AbortError" THEN "Failed to load markets" ELSE old

\* finally
Finally(l, result) ==
  /\ loading' = FALSE
  /\ loadingMore' = FALSE
  /\ abortControllerRef' = 0
  /\ loads' = [loads EXCEPT ![l].phase = "done", ![l].result = result]

\* getMarkets resolves with n markets: the page is set or appended, hasMore
\* and currentOffset follow; a reset load goes on to getMarketStats, a
\* load-more ends.
getMarketsResolves(l, n) ==
  /\ l \in 1..Len(loads)
  /\ loads[l].phase = "markets"
  /\ ~loads[l].aborted
  /\ n \in PageLengths(loads[l].offset)
  /\ marketList' = IF loads[l].reset
                     THEN Page(loads[l].filters, loads[l].offset, n)
                     ELSE marketList \o Page(loads[l].filters, loads[l].offset, n)
  /\ hasMore' = (loads[l].offset + n < total)
  /\ currentOffset' = loads[l].offset + n
  /\ IF loads[l].reset
       THEN /\ loads' = [loads EXCEPT ![l].phase = "stats"]
            /\ UNCHANGED <<loading, loadingMore, abortControllerRef>>
       ELSE Finally(l, "ok")
  /\ UNCHANGED <<error, statsFilters, filters, filterTimer, mounted, total>>
  /\ UNCHANGED <<frontVars, ingestVars, setupVars, pageVars>>

\* getMarketStats resolves: the counters are set and the load ends.
getMarketStatsResolves(l) ==
  /\ l \in 1..Len(loads)
  /\ loads[l].phase = "stats"
  /\ ~loads[l].aborted
  /\ statsFilters' = loads[l].filters
  /\ Finally(l, "ok")
  /\ UNCHANGED <<marketList, error, hasMore, currentOffset, filters, filterTimer, mounted,
               total>>
  /\ UNCHANGED <<frontVars, ingestVars, setupVars, pageVars>>

\* The request the load awaits fails for good (fetchWithRetry throws after
\* its attempts): catch, finally.
requestFails(l) ==
  /\ l \in 1..Len(loads)
  /\ InFlight(l)
  /\ ~loads[l].aborted
  /\ error' = catchError("Error", error)
  /\ Finally(l, "failed")
  /\ UNCHANGED <<marketList, hasMore, currentOffset, statsFilters, filters, filterTimer,
               mounted, total>>
  /\ UNCHANGED <<frontVars, ingestVars, setupVars, pageVars>>

\* The request of a load whose controller was aborted rejects with an
\* AbortError (at once, or after the backoff delay fetchWithRetry was
\* waiting): catch, finally.
requestAborted(l) ==
  /\ l \in 1..Len(loads)
  /\ InFlight(l)
  /\ loads[l].aborted
  /\ error' = catchError("AbortError", error)
  /\ Finally(l, "aborted")
  /\ UNCHANGED <<marketList, hasMore, currentOffset, statsFilters, filters, filterTimer,
               mounted, total>>
  /\ UNCHANGED <<frontVars, ingestVars, setupVars, pageVars>>

NextMarkets ==
  \/ Mount
  \/ setFilters
  \/ filterTimerFires
  \/ refreshMarkets
  \/ loadMore
  \/ \E l \in 1..MaxLoads, n \in 0..pageSize : getMarketsResolves(l, n)
  \/ \E l \in 1..MaxLoads : getMarketStatsResolves(l)
  \/ \E l \in 1..MaxLoads : requestFails(l)
  \/ \E l \in 1..MaxLoads : requestAborted(l)

\* The dashboard is opened against a backend with some total.
InitMarkets ==
  /\ RETRY_ATTEMPTS = retries
  /\ InitCalls
  /\ InitCards
  /\ InitDetail
  /\ history = FixedHistory
  /\ currentProbability = FixedProbability
  /\ now = NowDay
  /\ InitNoSetup
  /\ InitIngest(<<"A", "B">>)
  /\ \E n \in 0..MaxTotal : InitHook(n)
  /\ InitNoPages

SpecMarkets == InitMarkets /\ [][NextMarkets]_vars

\* Infinite scrolling: the page is opened and the user keeps the last card
\* in view; every request is answered and the filters are left alone.
NextScroll ==
  \/ Mount
  \/ filterTimerFires
  \/ loadMore
  \/ \E l \in 1..MaxLoads, n \in 0..pageSize : getMarketsResolves(l, n)
  \/ \E l \in 1..MaxLoads : getMarketStatsResolves(l)
  \/ \E l \in 1..MaxLoads : requestAborted(l)

\* The loadMarkets calls a scroll through t markets can take, one market a
\* page: the two reset loads and the load-mores, the overlapping ones
\* included. ScrollTotal is the largest total that MaxLoads pays for, so
\* that the cap of loadMarkets never stops a scroll.
LoadsNeeded(t) == 2 + (t * (t + 1)) \div 2

ScrollTotal == CHOOSE t \in 0..MaxLoads : LoadsNeeded(t) <= MaxLoads /\ MaxLoads < LoadsNeeded(t + 1)

InitScroll ==
  /\ RETRY_ATTEMPTS = retries
  /\ InitCalls
  /\ InitCards
  /\ InitDetail
  /\ history = FixedHistory
  /\ currentProbability = FixedProbability
  /\ now = NowDay
  /\ InitNoSetup
  /\ InitIngest(<<"A", "B">>)
  /\ \E n \in 0..ScrollTotal : InitHook(n)
  /\ InitNoPages

\* The effects run, the timer fires, every request settles and the
\* observer fires whenever the last card is in view.
FairScroll ==
  /\ InitScroll
  /\ [][NextScroll]_vars
  /\ WF_vars(Mount)
  /\ WF_vars(filterTimerFires)
  /\ WF_vars(loadMore)
  /\ \A l \in 1..MaxLoads :
       /\ WF_vars(\E n \in 0..pageSize : getMarketsResolves(l, n))
       /\ WF_vars(getMarketStatsResolves(l))
       /\ WF_vars(requestAborted(l))

\* ------------------------------------------- frontend: paginated view
\* Math.ceil(total / pagination.pageSize)
CeilDiv(a, b) == (a + b - 1) \div b

PageInFlight(l) == l.phase # "done"

\* loadMarkets up to its first await, called with the loads ls and the
\* controller ref, from a closure that holds the page size `size`: the
\* previous controller is aborted, a new one is stored, getMarkets is sent.
SendPage(ls, ref, size) ==
  Append(IF ref # 0 THEN [ls EXCEPT ![ref].aborted = TRUE] ELSE ls,
         [pageSize |-> size, total |-> backendTotal, aborted |-> FALSE, phase |-> "markets"])

\* The state after k calls of loadMarkets in a row, the last one from the
\* current render: setLoading(true), setError(null), the ref holds the
\* last controller.
pageLoadMarkets(first, k) ==
  /\ Len(pageLoads) + k <= MaxPageLoads
  /\ pageLoading' = (k > 0 \/ pageLoading)
  /\ pageError' = IF k > 0 THEN "null" ELSE pageError
  /\ pageLoads' =
       IF k = 0 THEN pageLoads
       ELSE IF k = 1 THEN SendPage(pageLoads, pageRef, pagination'.pageSize)
       ELSE SendPage(SendPage(pageLoads, pageRef, first), Len(pageLoads) + 1,
                     pagination'.pageSize)
  /\ pageRef' = IF k = 0 THEN pageRef ELSE Len(pageLoads) + k

\* The three effects run on mount: the mount effect and the pagination
\* effect each call loadMarkets, the filter effect sets its timer.
MountPages ==
  /\ ~pageMounted
  /\ pageMounted' = TRUE
  /\ pagination' = pagination
  /\ pageLoadMarkets(pagination.pageSize, 2)
  /\ pageTimer' = pagination.pageSize
  /\ UNCHANGED backendTotal
  /\ UNCHANGED <<frontVars, ingestVars, setupVars, hookVars>>

\* setPagination with a next state, and the pagination effect: it calls
\* loadMarkets when currentPage or pageSize changed.
SetPagination(next) ==
  /\ pagination' = next
  /\ pageLoadMarkets(0, IF next.currentPage # pagination.currentPage
                           \/ next.pageSize # pagination.pageSize THEN 1 ELSE 0)

\* App.handlePageChange, called by a control of Pagination; the component
\* is rendered only while loading is false.
handlePageChange(page) ==
  /\ pageMounted
  /\ ~pageLoading
  /\ SetPagination([pagination EXCEPT !.currentPage = page])
  /\ UNCHANGED <<pageMounted, pageTimer, backendTotal>>
  /\ UNCHANGED <<frontVars, ingestVars, setupVars, hookVars>>

\* getPageNumbers: the numbered buttons.
getPageNumbers ==
  LET totalPages == pagination.totalPages
      currentPage == pagination.currentPage
      start == Max2(1, currentPage - 2)
      end == IF totalPages <= currentPage + 2 THEN totalPages ELSE currentPage + 2
  IN  IF totalPages <= 9
        THEN 1..totalPages
        ELSE {1} \cup {p \in start..end : p > 1 /\ p < totalPages} \cup {totalPages}

\* First page: disabled={currentPage === 1}
firstPage ==
  /\ pagination.currentPage # 1
  /\ handlePageChange(1)

\* Previous: disabled={currentPage === 1}
previousPage ==
  /\ pagination.currentPage # 1
  /\ handlePageChange(pagination.currentPage - 1)

\* A numbered button.
numberedPage(page) ==
  /\ page \in getPageNumbers
  /\ handlePageChange(page)

\* Next: disabled={currentPage === totalPages}
nextPage ==
  /\ pagination.currentPage # pagination.totalPages
  /\ handlePageChange(pagination.currentPage + 1)

\* Last page: disabled={currentPage === totalPages}
lastPage ==
  /\ pagination.currentPage # pagination.totalPages
  /\ handlePageChange(pagination.totalPages)

\* Go: the page typed into the input is taken when it is in 1..totalPages.
handleJumpToPage(page) ==
  /\ page >= 1 /\ page <= pagination.totalPages
  /\ handlePageChange(page)

\* App.handlePageSizeChange, called by the Show select with another option.
handlePageSizeChange(size) ==
  /\ pageMounted
  /\ ~pageLoading
  /\ size \in PageSizes \ {pagination.pageSize}
  /\ SetPagination([pagination EXCEPT !.pageSize = size, !.currentPage = 1])
  /\ UNCHANGED <<pageMounted, pageTimer, backendTotal>>
  /\ UNCHANGED <<frontVars, ingestVars, setupVars, hookVars>>

\* The user changes a filter: the backend holds t markets for the new
\* filters; the effect's cleanup clears the timer and the effect sets a new
\* one, whose closure holds the pagination of this render.
setPageFilters(t) ==
  /\ pageMounted
  /\ t \in BackendTotals \ {backendTotal}
  /\ backendTotal' = t
  /\ pageTimer' = pagination.pageSize
  /\ UNCHANGED <<pagination, pageLoading, pageError, pageLoads, pageRef, pageMounted>>
  /\ UNCHANGED <<frontVars, ingestVars, setupVars, hookVars>>

\* The filter timer fires: setPagination(currentPage: 1) and loadMarkets
\* from the timer's closure; the pagination effect calls loadMarkets again
\* when currentPage changed.
pageTimerFires ==
  /\ pageMounted
  /\ pageTimer # 0
  /\ pageTimer' = 0
  /\ pagination' = [pagination EXCEPT !.currentPage = 1]
  /\ pageLoadMarkets(pageTimer, IF pagination.currentPage # 1 THEN 2 ELSE 1)
  /\ UNCHANGED <<pageMounted, backendTotal>>
  /\ UNCHANGED <<frontVars, ingestVars, setupVars, hookVars>>

\* Retry in the error banner: refreshMarkets calls loadMarkets.
pageRefresh ==
  /\ pageMounted
  /\ pageError # "null"
  /\ pagination' = pagination
  /\ pageLoadMarkets(0, 1)
  /\ UNCHANGED <<pageMounted, pageTimer, backendTotal>>
  /\ UNCHANGED <<frontVars, ingestVars, setupVars, hookVars>>

\* finally of load l: setLoading(false), abortControllerRef.current = null.
PageFinally(l) ==
  /\ pageLoads' = [pageLoads EXCEPT ![l].phase = "done"]
  /\ pageLoading' = FALSE
  /\ pageRef' = 0

\* getMarkets resolves for load l: totalItems and totalPages are set from
\* the total and the page size of the load's closure; getMarketStats is
\* sent.
pageMarketsResolve(l) ==
  /\ l \in 1..Len(pageLoads)
  /\ pageLoads[l].phase = "markets"
  /\ ~pageLoads[l].aborted
  /\ pagination' = [pagination EXCEPT
        !.totalItems = pageLoads[l].total,
        !.totalPages = CeilDiv(pageLoads[l].total, pageLoads[l].pageSize)]
  /\ pageLoads' = [pageLoads EXCEPT ![l].phase = "stats"]
  /\ UNCHANGED <<pageLoading, pageError, pageRef, pageMounted, pageTimer, backendTotal>>
  /\ UNCHANGED <<frontVars, ingestVars, setupVars, hookVars>>

\* getMarketStats resolves for load l: the counters are set, the load ends.
pageStatsResolve(l) ==
  /\ l \in 1..Len(pageLoads)
  /\ pageLoads[l].phase = "stats"
  /\ ~pageLoads[l].aborted
  /\ PageFinally(l)
  /\ UNCHANGED <<pagination, pageError, pageMounted, pageTimer, backendTotal>>
  /\ UNCHANGED <<frontVars, ingestVars, setupVars, hookVars>>

\* The request load l awaits fails for good: catch sets the error, finally.
pageRequestFails(l) ==
  /\ l \in 1..Len(pageLoads)
  /\ PageInFlight(pageLoads[l])
  /\ ~pageLoads[l].aborted
  /\ pageError' = "Failed to load markets"
  /\ PageFinally(l)
  /\ UNCHANGED <<pagination, pageMounted, pageTimer, backendTotal>>
  /\ UNCHANGED <<frontVars, ingestVars, setupVars, hookVars>>

\* The aborted request of load l rejects with an AbortError: catch leaves
\* the error alone, finally.
pageRequestAborted(l) ==
  /\ l \in 1..Len(pageLoads)
  /\ PageInFlight(pageLoads[l])
  /\ pageLoads[l].aborted
  /\ PageFinally(l)
  /\ UNCHANGED <<pagination, pageError, pageMounted, pageTimer, backendTotal>>
  /\ UNCHANGED <<frontVars, ingestVars, setupVars, hookVars>>

\* The pages the jump input is tried with.
JumpInputs == 0..11

NextPages ==
  \/ MountPages
  \/ firstPage
  \/ previousPage
  \/ \E page \in JumpInputs : numberedPage(page)
  \/ nextPage
  \/ lastPage
  \/ \E page \in JumpInputs : handleJumpToPage(page)
  \/ \E size \in PageSizes : handlePageSizeChange(size)
  \/ \E t \in BackendTotals : setPageFilters(t)
  \/ pageTimerFires
  \/ pageRefresh
  \/ \E l \in 1..MaxPageLoads : pageMarketsResolve(l)
  \/ \E l \in 1..MaxPageLoads : pageStatsResolve(l)
  \/ \E l \in 1..MaxPageLoads : pageRequestFails(l)
  \/ \E l \in 1..MaxPageLoads : pageRequestAborted(l)

\* The paginated view is opened against a backend with some total.
InitPaged ==
  /\ RETRY_ATTEMPTS = retries
  /\ InitCalls
  /\ InitCards
  /\ InitDetail
  /\ history = FixedHistory
  /\ currentProbability = FixedProbability
  /\ now = NowDay
  /\ InitNoSetup
  /\ InitIngest(<<"A", "B">>)
  /\ InitHook(0)
  /\ \E t \in BackendTotals : InitPages(t)

SpecPages == InitPaged /\ [][NextPages]_vars


\* ------------------------------------------------ properties: fetchWithRetry
CallEnded(c) == outcome[c].kind # "none"
ReturnedOk(c) == outcome[c].kind = "returned" /\ outcome[c].status \in 200..299
\* Every response the call has received so far was a 429.
Only429(c) == sent[c] > 0 /\ n429[c] = sent[c]
\* The call received 429s and then one ok response, nothing else.
Only429ThenOk(c) == ReturnedOk(c) /\ sent[c] = n429[c] + 1

\* C4: one call never sends more requests than maxRetries, the configured
\* attempt count (RETRY_ATTEMPTS, or the default 3 when that is 0 or NaN),
\* whatever the responses are, and every call ends.
C4_AttemptsBounded ==
  /\ [](\A c \in Tickers : sent[c] <= maxRetries)
  /\ \A c \in Tickers : <>CallEnded(c)

C4_Witness ==
  \E c \in Tickers : CallEnded(c) /\ sent[c] = maxRetries /\ maxRetries > retries

\* C5 as stated: a source that answers 429 k times and then 200 gets k retry
\* delays and a returned success, so a call that has seen only 429s has not
\* thrown, for every k.
C5_Original ==
  \A c \in Tickers :
    /\ Only429(c) => outcome[c].kind # "thrown"
    /\ Only429ThenOk(c) => Len(delays[c]) = n429[c]

\* C5 amended: for k below maxRetries, k 429s followed by a 200 give exactly
\* k delays and the ok response is returned; a call that has seen only 429s
\* throws only once it has received maxRetries of them.
C5_BackoffThenSuccess ==
  \A c \in Tickers :
    /\ Only429(c) /\ n429[c] < maxRetries => outcome[c].kind # "thrown"
    /\ Only429(c) /\ outcome[c].kind = "thrown" => n429[c] = maxRetries
    /\ Only429ThenOk(c) => Len(delays[c]) = n429[c] /\ n429[c] < maxRetries

C5_Witness ==
  \E c \in Tickers : Only429ThenOk(c) /\ n429[c] = 3 /\ Len(delays[c]) = 3

\* C6 as stated: after a non-2xx response other than 429/503 the call sends
\* no further request.
C6_NonRetryable ==
  [][\A c \in Tickers : gotOther[c] => sent'[c] = sent[c]]_vars

\* C7 as stated: when the attempts are used up the call returns a condition
\* to its caller, it does not raise.
C7_Original ==
  \A c \in Tickers : CallEnded(c) /\ ~ReturnedOk(c) => outcome[c].kind = "returned"

\* C7 amended: a history call throws exactly when its attempts are used up
\* (the last failure, or 'Max retries exceeded') and returns only an ok
\* response; the card that gets the error keeps its initial state, and a
\* card whose call succeeded shows the loaded history.
C7_ExhaustionThrown ==
  \A c \in Tickers :
    /\ outcome[c].kind = "thrown" =>
         /\ sent[c] = maxRetries
         /\ outcome[c].error \in {"API request failed", "TypeError", "Max retries exceeded"}
    /\ outcome[c].kind = "returned" => ReturnedOk(c)
    /\ cardPc[c] \in {"returned", "loaded"} <=> outcome[c].kind = "returned"
    /\ cardPc[c] \in {"thrown", "failed"} <=> outcome[c].kind = "thrown"
    /\ cardPc[c] = "failed" =>
         priceHistory[c] = <<>> /\ calculatedPriceChange[c] = Zero
    /\ cardPc[c] = "loaded" => priceHistory[c] = history[c]

C7_Witness ==
  \E c, d \in Tickers :
    /\ cardPc[c] = "failed" /\ outcome[c].error = "Max retries exceeded"
    /\ cardPc[d] = "loaded"

C9_RetryAfterHonoured ==
  \A c \in Tickers :
    cardPc[c] = "wait" /\ pending[c].retryAfter # 0 =>
      pending[c].delay = pending[c].retryAfter

\* ------------------------------------------------- properties: price change
\* The points of market m inside the 30-day window, earliest first.
Windowed(m) == WindowHistory(history[m], now)
StartToCurrent(m) == <<currentProbability[m] - Windowed(m)[1].price, 100>>

\* C10 as stated: with at least 2 points in the window the computed change
\* is currentPrice - (price of the earliest point in the window).
C10_StartToCurrent ==
  \A m \in Tickers :
    Len(Windowed(m)) >= 2 =>
      /\ cardPc[m] = "loaded" => FracEq(calculatedPriceChange[m], StartToCurrent(m))
      /\ detailPc[m] = "loaded" => FracEq(detailPriceChange[m], StartToCurrent(m))

\* ------------------------------------------------------ properties: ingestion
RowsFor(B, t) == BagSelect(B, {r \in BagToSet(B) : r.ticker = t})
RunEnds == runPc = "running" /\ runPc' = "idle"
\* A run ends that started from the same source data as the run before it.
RepeatRunEnds == RunEnds /\ runsDone >= 1 /\ lastRun.epoch = srcEpoch
ChangeValues(changes) ==
  {[ticker |-> r.ticker, window_days |-> r.window_days, stats |-> r.stats] :
     r \in BagToSet(changes)}
ChangeValuesFor(changes, t, w) ==
  {r.stats : r \in {x \in BagToSet(changes) : x.ticker = t /\ x.window_days = w}}

\* Every sample the source holds for t is stored and every window of t has a
\* change row written by the last run.
Committed(t) ==
  /\ \A s \in source[t] : HasPoint(pricePoints, t, s.timestamp)
  /\ \A w \in Windows : \E r \in BagToSet(marketChanges) :
       r.ticker = t /\ r.window_days = w /\ r.calculated_at = lastRun.at

\* C1: when a run has ended, every listed market is either counted as failed
\* because one of its own steps failed, or its price points and change rows
\* are committed by that run: the failure of another market's step, at
\* whichever step, neither stops the run nor keeps a market from committing.
C1_Isolation ==
  (runPc = "idle" /\ runsDone >= 1 /\ srcEpoch = lastRun.epoch) =>
    \A t \in Tickers :
      t \in lastRun.failed \/ (t \in lastRun.succeeded /\ Committed(t))

C1_Witness ==
  /\ runPc = "idle" /\ runsDone = 1 /\ srcEpoch = lastRun.epoch
  /\ lastRun.failed = {"A"} /\ "A" \notin lastRun.succeeded
  /\ "B" \in lastRun.succeeded /\ Committed("B")
  /\ RowsFor(pricePoints, "A") = EmptyBag

UniquePoints(points) ==
  \A r \in BagToSet(points) :
    /\ CopiesIn(r, points) = 1
    /\ \A q \in BagToSet(points) :
         q.ticker = r.ticker /\ q.timestamp = r.timestamp => q = r

\* C3: in every step, by whichever worker and in whichever run, the store
\* keeps at most one PricePoint per (ticker, timestamp), every stored row
\* stays as it is, a row is added only for a pair that was not stored, and
\* the append step reports as inserted exactly the timestamps it added.
C3_AppendOnlyUnique ==
  [][/\ UniquePoints(pricePoints')
     /\ \A r \in BagToSet(pricePoints) : CopiesIn(r, pricePoints') = CopiesIn(r, pricePoints)
     /\ \A r \in BagToSet(pricePoints') \ BagToSet(pricePoints) :
          ~HasPoint(pricePoints, r.ticker, r.timestamp)
     /\ \A w \in Workers :
          worker[w].pc = "append" /\ worker'[w].pc = "compute" =>
            worker'[w].inserted =
              {r.timestamp : r \in BagToSet(pricePoints') \ BagToSet(pricePoints)}]_vars

\* A run has read a revised sample for a stored (ticker, timestamp) pair;
\* the stored row still has the price first observed.
C3_Witness ==
  /\ runPc = "idle" /\ runsDone = 2 /\ srcEpoch = lastRun.epoch
  /\ "A" \in lastRun.succeeded /\ "A" \notin lastRun.failed
  /\ \E s \in source["A"] : \E r \in BagToSet(pricePoints) :
       /\ r.ticker = "A" /\ r.timestamp = s.timestamp /\ r.price # s.price
       /\ r.timestamp = LastKnown(pricePoints, "A")

\* C11 as stated: with fewer than 2 points of the history inside the window
\* the displayed change is the zero/absent one, for the card and the detail
\* view alike.
C11_FewPointsNoStatistics ==
  \A m \in Tickers :
    Len(Windowed(m)) < 2 =>
      /\ cardPc[m] = "loaded" => FracEq(calculatedPriceChange[m], Zero)
      /\ detailPc[m] = "loaded" => FracEq(detailPriceChange[m], Zero)

\* The price of the earliest point of market m inside the window.
StartPrice(m) == Windowed(m)[1].price

\* C12 as stated: the percentage the card shows is the change divided by the
\* start-of-window price when that price is positive (the change being the
\* start-to-current delta, or the distance the card itself computes), and
\* no quotient at all when the start-of-window price is 0.
C12_PercentageOverStart ==
  \A m \in Tickers :
    (cardPc[m] = "loaded" /\ Len(Windowed(m)) >= 2) =>
      IF StartPrice(m) > 0
        THEN \/ FracEq(calculatedPriceChange[m],
                       <<currentProbability[m] - StartPrice(m), StartPrice(m)>>)
             \/ FracEq(calculatedPriceChange[m],
                       <<ExtremeDistance(Windowed(m), currentProbability[m]), StartPrice(m)>>)
        ELSE FracEq(calculatedPriceChange[m], Zero)

\* The place of a per-market step in the order of spec 4.3.
StepRank(pc) ==
  CASE pc = "upsert" -> 1 [] pc = "fetch" -> 2 [] pc = "append" -> 3
    [] pc = "compute" -> 4 [] pc = "persist" -> 5 [] OTHER -> 0
\* Worker w does the step it stands at, or that step fails.
StepsOn(w) == worker[w].pc # "idle" /\ worker'[w] # worker[w]

LatestStoredPrice(t) ==
  (CHOOSE r \in BagToSet(pricePoints) :
     r.ticker = t /\ r.timestamp = LastKnown(pricePoints, t)).price
\* The source reports, for the latest stored timestamp of t, the price that
\* was stored when the timestamp was first observed.
LatestUnrevised(t) ==
  \A s \in source[t] :
    s.timestamp = LastKnown(pricePoints, t) => s.price = LatestStoredPrice(t)
\* The markets all of whose steps succeeded in the run that ends.
AllStepsSucceeded == succeeded \ failed

RawFetch(t) == fetchMarketHistory(source, t, LastKnown(pricePoints, t))

\* C15: every stored PricePoint has a price in [0,1] and is a record of the
\* source as the source reports it (nothing clamped or coerced); a history
\* fetch hands on exactly the well-formed records of the response and counts
\* the others as malformed; and when the first run ends without a failed
\* step, every malformed record has been counted and every well-formed
\* record of the same responses is stored.
C15_PricesInRange ==
  [][/\ \A r \in BagToSet(pricePoints') :
          /\ r.price \in 0..100
          /\ \E s \in source[r.ticker] :
               s.timestamp = r.timestamp /\ s.price = r.price
     /\ \A w \in Workers :
          worker[w].pc = "fetch" /\ worker'[w].pc = "append" =>
            /\ worker'[w].fetched = {s \in RawFetch(worker[w].ticker) : s.price \in 0..100}
            /\ skipped' = skipped + Cardinality(RawFetch(worker[w].ticker))
                            - Cardinality(worker'[w].fetched)
     /\ (RunEnds /\ runsDone = 0 /\ failed = {}) =>
          /\ skipped >= Cardinality(UNION {Malformed(source[t]) : t \in Tickers})
          /\ \A t \in Tickers : \A s \in source[t] :
               s.price \in 0..100 => PointRow(t, s) \in BagToSet(pricePoints)]_vars

\* The first run is complete: A's malformed first record was counted and
\* skipped, and the well-formed record after it is the only point of A.
C15_Witness ==
  /\ runPc = "running" /\ runsDone = 0 /\ toDispatch = <<>>
  /\ \A w \in Workers : worker[w].pc = "idle"
  /\ succeeded = Tickers /\ failed = {}
  /\ skipped >= 1
  /\ \E s \in source["A"] : s.timestamp = 0 /\ s.price = 120
  /\ BagCardinality(RowsFor(pricePoints, "A")) = 1
  /\ HasPoint(pricePoints, "A", 1)

\* A run is aborted in this step.
RunAborts == runPc # "aborted" /\ runPc' = "aborted"
\* A fatal error, or an error of another kind, is caught in this step.
FatalCaught == lastError' \in FatalErrors /\ lastError \notin FatalErrors
OtherCaught == faults' = faults + 1

\* C16: a run is aborted only by an authentication or configuration error,
\* and by each such error at once: nothing stays to be dispatched, no worker
\* keeps a market and the tables are as they were; any other error leaves
\* the run running with its queue and the other workers untouched, a step
\* that skips malformed records leaves the run running, and after the abort
\* no market is dispatched and nothing is written.
C16_OnlyFatalAborts ==
  [][/\ RunAborts =>
          /\ lastError' \in FatalErrors
          /\ toDispatch' = <<>>
          /\ \A w \in Workers : worker'[w].pc = "idle"
          /\ UNCHANGED tableVars
     /\ FatalCaught => RunAborts
     /\ OtherCaught =>
          /\ lastError' \in PerMarketErrors
          /\ runPc = "running" /\ runPc' = "running"
          /\ toDispatch' = toDispatch
          /\ \E w \in Workers :
               /\ worker[w].pc # "idle" /\ worker'[w].pc = "idle"
               /\ worker[w].ticker \in failed'
               /\ \A v \in Workers \ {w} : worker'[v] = worker[v]
     /\ skipped' > skipped => runPc' = "running"
     /\ runPc = "aborted" => UNCHANGED <<runPc, toDispatch, worker, tableVars>>]_vars

\* A run was aborted by an authentication error after a malformed record
\* was skipped and a market had failed, with a market still queued: the
\* earlier errors had left the run running.
C16_Witness ==
  /\ runPc = "aborted" /\ lastError = "AuthenticationError"
  /\ failed # {} /\ skipped >= 1
  /\ toDispatch = <<>> /\ \A w \in Workers : worker[w].pc = "idle"
  /\ listing = <<"A", "B", "A">>
  /\ BagCardinality(markets) = 2 /\ succeeded = {}

\* ------------------------------------------------ properties: exit status
\* The process exits: the run reaches DONE or a fatal error aborts it.
ProcessExits == runsDone' = runsDone + 1 \/ (runPc' = "aborted" /\ runPc # "aborted")

\* The run's tallies when the process exits (a run that fails before
\* FETCH_MARKETS has none).
ExitSucceeded == IF runPc = "running" THEN succeeded ELSE {}
ExitFailed == IF runPc = "running" THEN failed ELSE {}

\* C17: the process exits non-zero only when its source yielded zero
\* successfully processed markets; whenever at least one market of the
\* source was processed successfully it exits zero and emits the run
\* summary with the tallies of the run, even if other markets failed.
C17_ExitStatus ==
  [][ProcessExits =>
       /\ lastRun'.exit \in {0, 1}
       /\ lastRun'.exit # 0 => ExitSucceeded = {}
       /\ ExitSucceeded # {} =>
            /\ lastRun'.exit = 0
            /\ lastRun'.succeeded = ExitSucceeded
            /\ lastRun'.failed = ExitFailed
            /\ lastRun'.at = runNow]_vars

\* A run ended in which market A failed and market B was processed: the
\* process exited zero and the summary names both.
C17_Witness ==
  /\ runPc = "idle" /\ runsDone = 1
  /\ lastRun.failed = {"A"} /\ lastRun.succeeded = {"B"}
  /\ lastRun.exit = 0

\* ------------------------------------------------ properties: the deadline
\* The whole write of the step worker w stands at, and nothing else.
WholeStepWrite(w) ==
  \/ /\ worker[w].pc = "upsert"
     /\ markets' = upsertMarket(markets, worker[w].ticker,
                                ListedPrice(source, worker[w].ticker))
     /\ UNCHANGED <<pricePoints, marketChanges>>
  \/ /\ worker[w].pc = "append"
     /\ pricePoints' = AppendNewPoints(pricePoints, worker[w].ticker,
                                       worker[w].fetched).store
     /\ UNCHANGED <<markets, marketChanges>>
  \/ /\ worker[w].pc = "persist"
     /\ marketChanges' = PersistChanges(marketChanges, worker[w].ticker, Windows,
                                        worker[w].stats, runNow)
     /\ UNCHANGED <<markets, pricePoints>>

\* Worker w finishes the step it stands at, or its unit is abandoned.
FinishesOrAbandons(w) ==
  \/ worker'[w] = Idle
  \/ /\ worker'[w].ticker = worker[w].ticker
     /\ StepRank(worker'[w].pc) = StepRank(worker[w].pc) + 1

\* The MarketChange rows of a ticker are whole: one per configured window,
\* all of one computation, or none at all.
WholeChanges(changes, t) ==
  LET rows == BagToSet(RowsFor(changes, t))
  IN  \/ rows = {}
      \/ /\ {r.window_days : r \in rows} = Windows
         /\ Cardinality(rows) = Cardinality(Windows)
         /\ \A r, q \in rows : r.calculated_at = q.calculated_at

\* C18: once the run's deadline has expired nothing is dispatched (no idle
\* worker takes a market, the task queue is not consumed); a unit in flight
\* only finishes its step or is abandoned; and the tables change only by the
\* whole write of one unit's step or not at all, no ticker being left with
\* MarketChange rows of part of a computation.
C18_DeadlineNoPartialWrite ==
  [][runPc = "expired" =>
       /\ \A w \in Workers : worker[w].pc = "idle" => worker'[w].pc = "idle"
       /\ toDispatch' = toDispatch \/ (runPc' = "idle" /\ toDispatch' = <<>>)
       /\ \A w \in Workers : worker'[w] # worker[w] => FinishesOrAbandons(w)
       /\ tableVars' = tableVars \/ \E w \in Workers : WholeStepWrite(w)
       /\ \A t \in Tickers : WholeChanges(marketChanges', t)]_vars

\* The deadline expired in the second run with market A still queued: the
\* unit of A was abandoned, A's MarketChange rows being those of the first
\* run, and the unit of B is about to persist.
C18_Witness ==
  /\ runPc = "expired" /\ runsDone = 1
  /\ toDispatch = <<"A">>
  /\ failed = {"A"} /\ worker[1] = Idle
  /\ worker[2].pc = "persist" /\ worker[2].ticker = "B"
  /\ \A r \in BagToSet(RowsFor(marketChanges, "A")) : r.calculated_at = lastRun.at
  /\ lastRun.at < runNow

\* ------------------------------------- properties: MarketChange as a cache
\* The MarketChange rows stored for (t, w).
ChangeRows(t, w) ==
  BagSelect(marketChanges, {r \in BagToSet(marketChanges) :
                              r.ticker = t /\ r.window_days = w})

\* The change computation replayed over the stored history of t for window
\* w, as of the run timestamp `at`.
Replay(t, w, at) ==
  ComputeChange(WindowPoints(pricePoints, t, w, at), CurrentPrice(markets, t))

\* (t, w) has exactly one row, written by the run that ends, whose values
\* are those of the replay.
Reproducible(t, w) ==
  /\ BagCardinality(ChangeRows(t, w)) = 1
  /\ \A r \in BagToSet(ChangeRows(t, w)) :
       r.calculated_at = runNow /\ r.stats = Replay(t, w, runNow)

SetupSteps == CaseSteps("setup")
IsPrefix(s, t) == Len(s) <= Len(t) /\ SubSeq(t, 1, Len(s)) = s
Called(fn) == \E k \in 1..Len(started) : started[k] = fn
Succeeded(fn) == \E k \in 1..Len(completed) : completed[k] = fn

\* C20: run with `setup` or with no argument, the script calls check_docker,
\* setup_postgres, the two environment setups, run_migrations and
\* run_data_processor in this order and nothing else; a function is called
\* only when every function before it succeeded; run_data_processor is
\* called only after run_migrations succeeded and the migrations are
\* applied; once a function has failed the script has exited with a
\* non-zero status and calls nothing more; and it exits zero only after all
\* six succeeded.
C20_SetupInOrder ==
  Arg(command) = "setup" =>
    /\ IsPrefix(started, SetupSteps)
    /\ IsPrefix(completed, started)
    /\ Len(started) <= Len(completed) + 1
    /\ Len(completed) < Len(started) =>
         \/ exitStatus >= 1 /\ todo = <<>>
         \/ /\ exitStatus = -1
            /\ todo # <<>>
            /\ Head(todo) = "pg_isready"
            /\ started[Len(started)] = "setup_postgres"
    /\ Called("run_data_processor") => Succeeded("run_migrations") /\ migrated
    /\ exitStatus # -1 => todo = <<>>
    /\ exitStatus = 0 => completed = SetupSteps /\ processed

\* Run without an argument, the script got as far as run_migrations, where
\* alembic failed: it has exited non-zero and the data processor was not
\* started.
C20_Witness ==
  /\ command = ""
  /\ started = SubSeq(SetupSteps, 1, 5)
  /\ completed = SubSeq(SetupSteps, 1, 4)
  /\ exitStatus \in FailStatus
  /\ ~migrated /\ ~processed
  /\ venvs = {"migrations", "data-processor"}

\* ---------------------------------------------- properties: aborted fetch
\* C21: a call whose fetch was rejected with an AbortError has ended by
\* throwing that error: it was rejected so once only, on its last request,
\* no delay is pending or was waited after it (one delay per earlier
\* request), and from then on the call sends no request and waits no delay.
C21_AbortNotRetried ==
  [][\A c \in Tickers :
       /\ nAbort'[c] > 0 =>
            /\ nAbort'[c] = 1
            /\ outcome'[c] = Thrown("AbortError")
            /\ pending'[c] = NoWait
            /\ Len(delays'[c]) = sent'[c] - 1
       /\ nAbort[c] > 0 => sent'[c] = sent[c] /\ delays'[c] = delays[c]]_vars

\* With four attempts configured, a call was rate limited once, waited, and
\* its second fetch was aborted: it threw the AbortError after two requests
\* and one delay.
C21_Witness ==
  /\ maxRetries = 4
  /\ nAbort["A"] = 1 /\ n429["A"] = 1
  /\ sent["A"] = 2 /\ Len(delays["A"]) = 1
  /\ outcome["A"] = Thrown("AbortError")
  /\ cardPc["A"] = "failed"

\* -------------------------------------------------- properties: useMarkets
\* The loads whose request is in flight and whose controller is not aborted.
Live == {l \in 1..Len(loads) : InFlight(l) /\ ~loads[l].aborted}

\* C22: at every moment at most one request issued by loadMarkets is in
\* flight and not aborted.
C22_OneLiveRequest == Cardinality(Live) <= 1

\* C23: the markets list never holds the same item of the backend twice and
\* currentOffset equals the number of markets in the list.
C23_NoPageTwice ==
  /\ \A j, k \in 1..Len(marketList) : marketList[j] = marketList[k] => j = k
  /\ currentOffset = Len(marketList)

\* The reset load started last.
LastReset ==
  CHOOSE l \in 1..Len(loads) :
    loads[l].reset /\ \A k \in 1..Len(loads) : loads[k].reset => k <= l

\* Every request has settled and no timer is pending.
Settled == mounted /\ ~filterTimer /\ \A l \in 1..Len(loads) : ~InFlight(l)

\* C24: once all requests have settled after the most recently started
\* reset load succeeded, the markets list, hasMore and currentOffset come
\* from that load, which ran with the latest filter values, and the
\* load-mores after it: every item is of the latest filter values, and
\* hasMore and currentOffset are those of the list's last page.
C24_LatestLoadWins ==
  (Settled /\ loads[LastReset].result = "ok") =>
    /\ loads[LastReset].filters = filters
    /\ \A k \in 1..Len(marketList) : marketList[k][1] = filters
    /\ marketList # <<>> => marketList[Len(marketList)][2] = currentOffset - 1
    /\ hasMore = (currentOffset < total)

\* C25: loading is true while an un-aborted reset load is in flight and
\* loadingMore is true while an un-aborted load-more is in flight.
C25_FlagsWhileInFlight ==
  \A l \in Live : IF loads[l].reset THEN loading ELSE loadingMore

\* A load ends in this step.
Ends(l) == l \in 1..Len(loads) /\ InFlight(l) /\ loads'[l].phase = "done"

\* C26: a load whose request was aborted ends without changing the markets
\* list, hasMore, currentOffset, the stats counters or the error message;
\* the error message is set to 'Failed to load markets' only by a load that
\* ends with a failure other than an abort.
C26_AbortedLoadChangesNothing ==
  [][/\ \A l \in 1..MaxLoads :
          (Ends(l) /\ loads[l].aborted) =>
            UNCHANGED <<marketList, hasMore, currentOffset, statsFilters, error>>
     /\ (error' = "Failed to load markets" /\ error # error') =>
          \E l \in 1..MaxLoads : Ends(l) /\ ~loads[l].aborted /\ loads'[l].result = "failed"
    ]_vars

\* The mount load was aborted by the filter effect's load, whose page is
\* shown after the first load ended as aborted.
C26_Witness ==
  /\ Len(loads) = 2
  /\ loads[1].result = "aborted" /\ loads[1].aborted
  /\ loads[2].result = "ok"
  /\ marketList = Page(0, 0, 1)
  /\ error = "null"

\* A load-more request is sent in this step.
LoadMoreSent == Len(loads') = Len(loads) + 1 /\ ~loads'[Len(loads')].reset

\* C27: against a backend with a fixed total that serves between 1 and
\* pageSize markets for every offset below the total, scrolling ends with
\* hasMore false and currentOffset equal to the total, for good; and no
\* load-more request is sent while hasMore is false.
C27_ScrollTerminates ==
  /\ <>[](~hasMore /\ currentOffset = total)
  /\ [][LoadMoreSent => hasMore]_vars

\* Two markets were paged through by a load-more after the reload of the
\* filter effect: everything has settled, hasMore is false and
\* currentOffset is the total.
C27_Witness ==
  /\ total = 2 /\ Settled
  /\ ~hasMore /\ currentOffset = 2
  /\ Len(marketList) = 2
  /\ \E l \in 1..Len(loads) : ~loads[l].reset /\ loads[l].result = "ok" /\ l > LastReset


\* C28: fetchWithRetry only ever returns a response whose ok flag is true:
\* whatever the fetches settle with and whatever RETRY_ATTEMPTS is, a call
\* that has ended has either returned a response with a status in 200..299
\* or thrown an error, and a call that has not ended has no outcome.
CallOver(c) == cardPc[c] \in {"returned", "thrown", "loaded", "failed"}

C28_OnlyOkReturned ==
  \A c \in Tickers :
    /\ outcome[c].kind = "returned" => outcome[c].status \in 200..299
    /\ CallOver(c) => outcome[c].kind \in {"returned", "thrown"}
    /\ ~CallOver(c) => outcome[c].kind = "none"
    /\ outcome[c].kind = "thrown" => outcome[c].error # ""

\* One call returned an ok response after a rate-limited attempt and one
\* threw after a response that was neither ok nor retried.
C28_Witness ==
  \E c, e \in Tickers :
    /\ outcome[c].kind = "returned" /\ n429[c] > 0 /\ sent[c] = n429[c] + 1
    /\ outcome[e].kind = "thrown" /\ gotOther[e]
    /\ outcome[e].error = "API request failed"

\* C29: MarketCard and MarketDetail show the same price-change value for the
\* same market, current price and history: once both have loaded the
\* history of market m, the value the card computed equals the value the
\* detail view computed.
C29_SamePriceChange ==
  \A m \in Tickers :
    (cardPc[m] = "loaded" /\ detailPc[m] = "loaded") =>
      FracEq(calculatedPriceChange[m], detailPriceChange[m])

\* C30: in the paginated view currentPage never leaves the range
\* 1..max(1, totalPages), whatever control of Pagination is used and
\* whatever page size or filter is chosen, also when totalPages is 0.
C30_PageInRange ==
  /\ pagination.currentPage >= 1
  /\ pagination.currentPage <= Max2(1, pagination.totalPages)

====
